---- MODULE Spec2Model ----
(***************************************************************************)
(* Limits_droper: Intel package power-limit tools.                         *)
(*                                                                         *)
(*   limits_ui.c        interactive CLI (MSR 0x610 + MCHBAR 0x59A0)        *)
(*   limits_ui_qt       Qt front end talking to a privileged helper        *)
(*   mchbar_pl_write.c  one-shot MMIO writer (--set / --restore)           *)
(*   mchbar_scan.c      MCHBAR scanner (watts -> units path)               *)
(*                                                                         *)
(* Representation.                                                         *)
(*   A 64-bit (or 32-bit) register value is the set of the positions of    *)
(*   its 1 bits, so that &, |, ~, << and >> are set operations and no      *)
(*   value exceeds TLC's integer range.  uint16_t quantities (unit         *)
(*   fields) are naturals below 65536.                                     *)
(*   Watts are held in hundredths of a watt (the GUI spin boxes have two   *)
(*   decimals); unit_watts = 2^-n is held as its reciprocal 2^n (units     *)
(*   per watt), 0 standing for a unit_watts that is not positive.          *)
(***************************************************************************)
EXTENDS Integers, FiniteSets, Sequences, TLC

VARIABLES
    msr,        \* hardware: IA32_PKG_POWER_LIMIT (MSR 0x610)
    mmio,       \* hardware: MCHBAR package power limit (offset 0x59A0)
    powercap,   \* kernel powercap endpoints constraint_0/1_power_limit_uw
    power_unit, \* hardware: low 4 bits of MSR_RAPL_POWER_UNIT (0x606)
    op,         \* the operation in progress: program, handler, position, locals
    log,        \* what the operation in progress has shown, asked and written
    ops,        \* operations started so far
    cin,        \* codec harness: inputs of the pure function under check
    cout        \* codec harness: its result

vars == <<msr, mmio, powercap, power_unit, op, log, ops, cin, cout>>

hw_vars == <<msr, mmio, powercap, power_unit>>
wf_vars == <<msr, mmio, powercap, power_unit, op, log, ops>>
codec_vars == <<cin, cout>>

----------------------------------------------------------------------------
(* Bit vectors as sets of bit positions.                                   *)

Bits64 == 0..63
Bits32 == 0..31
Bits16 == 0..15

Pow2(n) == 2^n

\* bit i of the natural number n
BitOf(n, i) == (n \div Pow2(i)) % 2 = 1

\* (uint32_t)n or (uint64_t)n for a natural n below 2^16
ToBits(n) == {i \in Bits16 : BitOf(n, i)}

RECURSIVE SumBits(_)
SumBits(s) == IF s = {} THEN 0
              ELSE LET i == CHOOSE x \in s : TRUE IN Pow2(i) + SumBits(s \ {i})

\* (uint16_t)v for a bit vector v
ToU16(v) == SumBits(v \cap Bits16)

\* the 64-bit value with 16-bit limbs w3:w2:w1:w0 (w3 most significant)
U64(w3, w2, w1, w0) ==
    LET limb == <<w0, w1, w2, w3>>
    IN {i \in Bits64 : BitOf(limb[(i \div 16) + 1], i % 16)}

And(a, b) == a \cap b
Or(a, b) == a \cup b
Not32(a) == Bits32 \ a
Not64(a) == Bits64 \ a
Shr32(a) == {i - 32 : i \in {j \in a : j >= 32}}
Shl32(a) == {i + 32 : i \in {j \in a : j + 32 <= 63}}
Lo32(a) == a \cap Bits32

\* the literal 0x7FFFu
Mask7FFF == 0..14
\* the literal 0xffffffffu
MaskLow32 == Bits32

----------------------------------------------------------------------------
(* Power-limit codec.                                                      *)

\* set_pl_units with the field mask widened to 0xFFFF (bit 15 overwritten)
set_pl_units_wide_mask(cur, pl1_units, pl2_units) ==
    LET lo == Lo32(And(cur, MaskLow32))
        hi == Lo32(Shr32(cur))
        lo2 == Or(And(lo, Not32(Bits16)), And(ToBits(pl1_units), Bits16))
        hi2 == Or(And(hi, Not32(Bits16)), And(ToBits(pl2_units), Bits16))
    IN Or(Shl32(hi2), lo2)

\* limits_ui.c set_pl_units
set_pl_units(cur, pl1_units, pl2_units) ==
    LET lo == Lo32(And(cur, MaskLow32))
        hi == Lo32(Shr32(cur))
        lo2 == Or(And(lo, Not32(Mask7FFF)), And(ToBits(pl1_units), Mask7FFF))
        hi2 == Or(And(hi, Not32(Mask7FFF)), And(ToBits(pl2_units), Mask7FFF))
    IN Or(Shl32(hi2), lo2)

\* apply_pl_units with PL1 and PL2 written to each other's word
apply_pl_units_swapped(cur, pl1_units, pl2_units) ==
    LET lo == Lo32(And(cur, MaskLow32))
        hi == Lo32(Shr32(cur))
        lo2 == Or(And(lo, Not32(Mask7FFF)), And(ToBits(pl2_units), Mask7FFF))
        hi2 == Or(And(hi, Not32(Mask7FFF)), And(ToBits(pl1_units), Mask7FFF))
    IN Or(Shl32(hi2), lo2)

\* limits_ui_qt apply_pl_units
apply_pl_units(cur, pl1_units, pl2_units) ==
    LET lo == Lo32(And(cur, MaskLow32))
        hi == Lo32(Shr32(cur))
        lo2 == Or(And(lo, Not32(Mask7FFF)), And(ToBits(pl1_units), Mask7FFF))
        hi2 == Or(And(hi, Not32(Mask7FFF)), And(ToBits(pl2_units), Mask7FFF))
    IN Or(Shl32(hi2), lo2)

\* replace_power_field with the mask widened to 0xFFFF
replace_power_field_wide_mask(cur, new_units) ==
    Or(And(cur, Not32(Bits16)), And(ToBits(new_units), Bits16))

\* mchbar_pl_write.c replace_power_field
replace_power_field(cur, new_units) ==
    Or(And(cur, Not32(Mask7FFF)), And(ToBits(new_units), Mask7FFF))

\* mchbar_pl_write.c main, --set: the target built from orig and the units
plw_set_target(orig, pl1_units, pl2_units) ==
    LET lo == Lo32(And(orig, MaskLow32))
        hi == Lo32(Shr32(orig))
        lo2 == replace_power_field(lo, pl1_units)
        hi2 == replace_power_field(hi, pl2_units)
    IN Or(Shl32(hi2), lo2)

\* limits_ui.c print_pl: the two unit fields shown for a raw value
print_pl(val) ==
    <<ToU16(And(val, Mask7FFF)), ToU16(And(Shr32(val), Mask7FFF))>>

\* limits_ui_qt update_msr: the two unit fields shown for the MSR
update_msr(val) ==
    <<ToU16(And(val, Mask7FFF)), ToU16(And(Shr32(val), Mask7FFF))>>

\* limits_ui_qt update_mmio: the two unit fields shown for the MMIO register
update_mmio(val) ==
    <<ToU16(And(val, Mask7FFF)), ToU16(And(Shr32(val), Mask7FFF))>>

----------------------------------------------------------------------------
(* Watts to units.                                                         *)

\* llround(pl_w / unit_watts): pl_w in hundredths of a watt, unit_watts as
\* its reciprocal upw = 2^n.  The quotient pl_w * 2^n is exact in binary
\* floating point, and it is a tie (k + 1/2) only for a pl_w that is a
\* multiple of 0.25 W, which a double holds exactly; llround rounds a tie
\* away from zero.  Whole watts and the hundredths are scaled separately
\* so that no intermediate value leaves the integer range.
llround_div(pl_w, upw) ==
    (pl_w \div 100) * upw + (2 * (pl_w % 100) * upw + 100) \div 200

\* (uint16_t)x for a natural x
to_uint16(x) == x % 65536

\* unit_watts taken as 1.0 / power_unit, without the shift
cli_unit_watts_no_shift(pu) == pu

\* limits_ui.c main: unit_watts = 1.0 / (double)(1u << power_unit)
cli_unit_watts(pu) == Pow2(pu)

\* limits_ui.c set_limits: uint16_t plN_units = (uint16_t)llround(plN_w / unit_watts)
cli_units(pl_w, upw) == to_uint16(llround_div(pl_w, upw))

\* limits_ui.c set_limits: the range check on the converted units
cli_units_out_of_range(pl1_units, pl2_units) ==
    pl1_units = 0 \/ pl2_units = 0 \/ pl1_units > 32767 \/ pl2_units > 32767

\* limits_ui.c set_limits: "Refusing unusual values."
cli_watts_refused(pl1_w, pl2_w) ==
    pl1_w <= 0 \/ pl2_w <= 0 \/ pl1_w > 500000 \/ pl2_w > 500000

\* limits_ui_qt MainWindow::build_units: [ok, pl1_units, pl2_units]
build_units(upw, pl1_w, pl2_w) ==
    IF upw <= 0 THEN [ok |-> FALSE, pl1_units |-> 0, pl2_units |-> 0]
    ELSE LET pl1_calc == llround_div(pl1_w, upw)
             pl2_calc == llround_div(pl2_w, upw)
         IN IF pl1_calc = 0 \/ pl2_calc = 0 \/ pl1_calc > 32767 \/ pl2_calc > 32767
            THEN [ok |-> FALSE, pl1_units |-> 0, pl2_units |-> 0]
            ELSE [ok |-> TRUE, pl1_units |-> to_uint16(pl1_calc),
                  pl2_units |-> to_uint16(pl2_calc)]

\* mchbar_scan.c main, watts path: [ok, pl1_units, pl2_units]
scan_units(pu, pl1_w, pl2_w) ==
    LET upw == Pow2(pu)
        pl1_units == to_uint16(llround_div(pl1_w, upw))
        pl2_units == to_uint16(llround_div(pl2_w, upw))
    IN IF pl1_units = 0 \/ pl2_units = 0 \/ pl1_units > 32767 \/ pl2_units > 32767
       THEN [ok |-> FALSE, pl1_units |-> 0, pl2_units |-> 0]
       ELSE [ok |-> TRUE, pl1_units |-> pl1_units, pl2_units |-> pl2_units]

\* limits_ui.c set_limits, conversion and range check: [ok, pl1_units, pl2_units]
set_limits_units(upw, pl1_w, pl2_w) ==
    LET pl1_units == cli_units(pl1_w, upw)
        pl2_units == cli_units(pl2_w, upw)
    IN IF cli_units_out_of_range(pl1_units, pl2_units)
       THEN [ok |-> FALSE, pl1_units |-> 0, pl2_units |-> 0]
       ELSE [ok |-> TRUE, pl1_units |-> pl1_units, pl2_units |-> pl2_units]

\* (uint64_t)llround(pl_w * 1000000.0), as whole watts and the microwatts
\* below one watt (the value is w * 10^6 + uw)
microwatts(pl_w) == [w |-> pl_w \div 100, uw |-> (pl_w % 100) * 10000]

uw_is_zero(m) == m.w = 0 /\ m.uw = 0

----------------------------------------------------------------------------
(* Inputs of the model.                                                    *)

\* raw register values: zero, all ones, the README's restore example
\* 0x004284e800df81b8, the worked example 0x00000004E80001B8 and an
\* alternating pattern
RawSamples ==
    { U64(0, 0, 0, 0),
      U64(65535, 65535, 65535, 65535),
      U64(66, 34024, 223, 33208),
      U64(0, 1256, 0, 440),
      U64(43690, 21845, 43690, 21845) }

\* uint16_t unit values: 0, 1, 0x1B8, 0x4E8, 0x7FFF, 0x8000, 0xFFFF
UnitSamples == {0, 1, 440, 1256, 32767, 32768, 65535}

\* requested watts, in hundredths: 0.01 .. 5000.00
WattSamples ==
    {1, 6, 7, 25, 100, 5500, 15700, 204800, 409588, 409594, 410000, 500000}

\* every value of the 4-bit power unit field
PowerUnits == 0..15

NoCodec == [kind |-> "none"]
NoResult == [fn |-> "none"]

----------------------------------------------------------------------------
(* Operation records and the operator-visible log.                         *)

\* no operation in progress; every operation record has these fields
IdleOp ==
    [prog |-> "none", fn |-> "none", pc |-> "idle", result |-> "none",
     target |-> "none", confirm |-> FALSE, do_refresh |-> FALSE,
     powercap_on |-> FALSE, pl1_w |-> 0, pl2_w |-> 0,
     pl1_units |-> 0, pl2_units |-> 0, unit_watts |-> 0,
     converted |-> FALSE, st_msr |-> {}, st_mmio |-> {}, next |-> {}]

\* an entry of the log: what happened (ev), to which register or endpoint
\* (reg), with which 64-bit value (val; {} where none is involved)
Ev(e, r, v) == [ev |-> e, reg |-> r, val |-> v]

\* the operation returns with the given value
Done(o, ret) == [o EXCEPT !.pc = "done", !.result = ret]

----------------------------------------------------------------------------
(* Codec harness: each action applies one pure function of the front ends  *)
(* to the inputs drawn in CodecInit.                                       *)

CodecEncode(fn, enc, dec) ==
    /\ cin.kind = "enc"
    /\ cout = NoResult
    /\ cout' = [fn |-> fn, enc |-> enc, dec |-> dec]
    /\ UNCHANGED <<cin, msr, mmio, powercap, power_unit, op, log, ops>>

CodecSetPlUnits ==
    /\ cin.kind = "enc"
    /\ LET enc == set_pl_units(cin.raw, cin.a, cin.b)
       IN CodecEncode("set_pl_units", enc, print_pl(enc))

CodecApplyPlUnits ==
    /\ cin.kind = "enc"
    /\ LET enc == apply_pl_units(cin.raw, cin.a, cin.b)
       IN CodecEncode("apply_pl_units", enc, update_msr(enc))

CodecPlwSet ==
    /\ cin.kind = "enc"
    /\ LET enc == plw_set_target(cin.raw, cin.a, cin.b)
       IN CodecEncode("plw_set_target", enc, update_mmio(enc))

CodecConvert(fn, res) ==
    /\ cin.kind = "conv"
    /\ cout = NoResult
    /\ cout' = [fn |-> fn, res |-> res]
    /\ UNCHANGED <<cin, msr, mmio, powercap, power_unit, op, log, ops>>

\* CLI: any watts 0 < w <= 5000 reach the conversion
CodecSetLimitsUnits ==
    /\ cin.kind = "conv"
    /\ ~cli_watts_refused(cin.pl1_w, cin.pl2_w)
    /\ CodecConvert("set_limits",
                    set_limits_units(cli_unit_watts(cin.pu), cin.pl1_w, cin.pl2_w))

\* GUI: the spin boxes hold 1.00 .. 5000.00
CodecBuildUnits ==
    /\ cin.kind = "conv"
    /\ cin.pl1_w >= 100 /\ cin.pl2_w >= 100
    /\ CodecConvert("build_units", build_units(Pow2(cin.pu), cin.pl1_w, cin.pl2_w))

CodecScanUnits ==
    /\ cin.kind = "conv"
    /\ CodecConvert("scan_units", scan_units(cin.pu, cin.pl1_w, cin.pl2_w))

\* CLI set_limits from the watts to the value written: the conversion,
\* the range check and set_pl_units on the value read
CodecSetLimitsEncode ==
    /\ cin.kind = "apply"
    /\ cout = NoResult
    /\ ~cli_watts_refused(cin.pl1_w, cin.pl2_w)
    /\ LET u == set_limits_units(cli_unit_watts(cin.pu), cin.pl1_w, cin.pl2_w)
       IN cout' = [fn |-> "set_limits_encode", res |-> u,
                   enc |-> IF u.ok THEN set_pl_units(cin.raw, u.pl1_units, u.pl2_units)
                           ELSE cin.raw]
    /\ UNCHANGED <<cin, msr, mmio, powercap, power_unit, op, log, ops>>

\* GUI apply_limits_internal from the watts to the value written:
\* build_units and apply_pl_units on the value read
CodecBuildUnitsEncode ==
    /\ cin.kind = "apply"
    /\ cout = NoResult
    /\ cin.pl1_w >= 100 /\ cin.pl2_w >= 100
    /\ LET u == build_units(Pow2(cin.pu), cin.pl1_w, cin.pl2_w)
       IN cout' = [fn |-> "build_units_encode", res |-> u,
                   enc |-> IF u.ok THEN apply_pl_units(cin.raw, u.pl1_units, u.pl2_units)
                           ELSE cin.raw]
    /\ UNCHANGED <<cin, msr, mmio, powercap, power_unit, op, log, ops>>

CodecInit ==
    /\ msr = U64(0, 0, 0, 0)
    /\ mmio = U64(0, 0, 0, 0)
    /\ powercap = [pl1 |-> microwatts(0), pl2 |-> microwatts(0)]
    /\ power_unit = 3
    /\ op = IdleOp
    /\ log = <<>>
    /\ ops = 0
    /\ cout = NoResult
    /\ \/ \E raw \in RawSamples, a \in UnitSamples, b \in UnitSamples :
            cin = [kind |-> "enc", raw |-> raw, a |-> a, b |-> b]
       \/ \E pu \in PowerUnits, w1 \in WattSamples, w2 \in WattSamples :
            cin = [kind |-> "conv", pu |-> pu, pl1_w |-> w1, pl2_w |-> w2]
       \/ \E raw \in RawSamples, pu \in PowerUnits,
             w1 \in WattSamples, w2 \in WattSamples :
            cin = [kind |-> "apply", raw |-> raw, pu |-> pu,
                   pl1_w |-> w1, pl2_w |-> w2]

CodecNext ==
    \/ CodecSetPlUnits
    \/ CodecApplyPlUnits
    \/ CodecPlwSet
    \/ CodecSetLimitsUnits
    \/ CodecBuildUnits
    \/ CodecScanUnits
    \/ CodecSetLimitsEncode
    \/ CodecBuildUnitsEncode

SpecCodec == CodecInit /\ [][CodecNext]_vars

----------------------------------------------------------------------------
(* Claims about the codec.                                                 *)

\* the mask 0x00007FFF00007FFF of the two unit fields
PlFieldMask == U64(0, 32767, 0, 32767)

IsEncoded == cout.fn \in {"set_pl_units", "apply_pl_units", "plw_set_target"}

\* C1: every encoder (set_pl_units, apply_pl_units, replace_power_field on
\* both words) returns a value that agrees with raw on every bit outside
\* 0x00007FFF00007FFF; only bits 0-14 and 32-46 may differ.
C1_BitPreservation ==
    IsEncoded =>
        /\ And(cout.enc, Not64(PlFieldMask)) = And(cin.raw, Not64(PlFieldMask))
        /\ \A i \in Bits64 :
              ((i \in cout.enc) # (i \in cin.raw)) => (i \in 0..14 \/ i \in 32..46)

\* an encoding that changed the fields of a raw value whose opaque bits
\* (bit 15, bit 47 among them) are set, with units that carry bit 15
C1_Witness ==
    /\ IsEncoded
    /\ cout.fn = "plw_set_target"
    /\ cin.raw = U64(66, 34024, 223, 33208)
    /\ cin.a = 65535
    /\ cin.b = 32768
    /\ cout.enc # cin.raw
    /\ {15, 47} \subseteq cout.enc

\* C2: decoding an encoder's result as print_pl / update_msr / update_mmio
\* do returns exactly (a & 0x7FFF, b & 0x7FFF).
C2_RoundTrip ==
    IsEncoded => cout.dec = <<cin.a % 32768, cin.b % 32768>>

\* all-ones raw value, units 0x8000 and 0x4E8: the fields read back 0 and 0x4E8
C2_Witness ==
    /\ cout.fn = "apply_pl_units"
    /\ cin.raw = U64(65535, 65535, 65535, 65535)
    /\ cin.a = 32768
    /\ cin.b = 1256
    /\ cout.dec = <<0, 1256>>

IsConverted == cout.fn \in {"set_limits", "build_units", "scan_units"}

\* round(w / unit_watts) for unit_watts = 2^-n
RoundedUnits(pl_w, n) == llround_div(pl_w, Pow2(n))

UnitsOutOfRange(r) == r = 0 \/ r > 32767

\* C3: in each front end the conversion is rejected exactly when
\* round(w / unit_watts) is 0 or greater than 32767 for PL1 or PL2, and
\* otherwise yields exactly round(w / unit_watts).
C3_UnitRange ==
    IsConverted =>
        LET r1 == RoundedUnits(cin.pl1_w, cin.pu)
            r2 == RoundedUnits(cin.pl2_w, cin.pu)
        IN /\ cout.res.ok = ~(UnitsOutOfRange(r1) \/ UnitsOutOfRange(r2))
           /\ cout.res.ok => (cout.res.pl1_units = r1 /\ cout.res.pl2_units = r2)

----------------------------------------------------------------------------
(* Inputs of the workflow model.                                           *)

\* operations started in one run of the model
MaxOps == 2

\* register contents at start: the README's 0x004284e800df81b8 (enable
\* bits and time windows set) and 0x00000004E80001B8 (opaque bits clear)
RegSamples == { U64(66, 34024, 223, 33208), U64(0, 1256, 0, 440) }

\* power unit fields of the modelled machines: 1 W, 1/8 W and 1/16 W
WfPowerUnits == {0, 3, 4}

\* the PL1 and PL2 watts the operator asks for, in hundredths: 55 W and
\* 157 W, and requests with 4100 W in either place
WfWatts == {<<5500, 15700>>, <<410000, 15700>>, <<5500, 410000>>}

\* what the operator may type at the CLI watts prompts: also 0
CliWatts == WfWatts \cup {<<0, 15700>>}

\* enum class Target { Msr, Mmio, Both }
Targets == {"msr", "mmio", "both"}

\* outcomes of the two powercap endpoint writes
PowercapOutcomes == {"ok", "fail_pl1", "fail_pl2"}

\* a handler starts from the menu (CLI) or the event loop (GUI)
CanStart == op.pc = "idle" /\ ops < MaxOps

\* the handler has returned: back to the menu or the event loop
Return ==
    /\ op.pc = "done"
    /\ op' = IdleOp
    /\ log' = <<>>
    /\ UNCHANGED <<msr, mmio, powercap, power_unit, ops, cin, cout>>

----------------------------------------------------------------------------
(* limits_ui.c: write_powercap_uw and set_limits.                          *)

\* write_powercap_uw: constraint_0 is written first, constraint_1 only
\* after it; the result is the return value and the endpoints afterwards
write_powercap_uw(cap, pl1_uw, pl2_uw, outcome) ==
    CASE outcome = "fail_pl1" -> [ret |-> -1, powercap |-> cap]
      [] outcome = "fail_pl2" -> [ret |-> -1, powercap |-> [cap EXCEPT !.pl1 = pl1_uw]]
      [] OTHER -> [ret |-> 0, powercap |-> [pl1 |-> pl1_uw, pl2 |-> pl2_uw]]

CliTarget(t) == CASE t = 1 -> "msr" [] t = 2 -> "mmio" [] t = 3 -> "both" [] OTHER -> "none"

\* set_limits, the MSR block up to its prompt: rdmsr, set_pl_units, the
\* "MSR  new = ..." line and "Write MSR?"
CliMsrBlock(o, lg, rd_ok) ==
    IF ~rd_ok
    THEN [op |-> Done(o, "-1"),
          log |-> lg \o <<Ev("read_fail", "msr", {}), Ev("error", "msr", {})>>]
    ELSE LET next == set_pl_units(msr, o.pl1_units, o.pl2_units)
         IN [op |-> [o EXCEPT !.pc = "msr_confirm", !.st_msr = msr, !.next = next],
             log |-> lg \o <<Ev("read", "msr", msr), Ev("preview", "msr", next),
                             Ev("prompt", "msr", next)>>]

\* the MMIO block printing the value read instead of the value to write
CliMmioBlock_preview_cur(o, lg) ==
    LET next == set_pl_units(mmio, o.pl1_units, o.pl2_units)
    IN [op |-> [o EXCEPT !.pc = "mmio_confirm", !.st_mmio = mmio, !.next = next],
        log |-> lg \o <<Ev("read", "mmio", mmio), Ev("preview", "mmio", mmio),
                        Ev("prompt", "mmio", mmio)>>]

\* set_limits, the MMIO block up to its prompt: rd64, set_pl_units, the
\* "MMIO new = ..." line and "Write MMIO?"
CliMmioBlock(o, lg) ==
    LET next == set_pl_units(mmio, o.pl1_units, o.pl2_units)
    IN [op |-> [o EXCEPT !.pc = "mmio_confirm", !.st_mmio = mmio, !.next = next],
        log |-> lg \o <<Ev("read", "mmio", mmio), Ev("preview", "mmio", next),
                        Ev("prompt", "mmio", next)>>]

\* set_limits: "Write kernel powercap (intel-rapl)?"
CliPowercapPrompt(o, lg) ==
    [op |-> [o EXCEPT !.pc = "powercap_confirm"],
     log |-> Append(lg, Ev("prompt", "powercap", {}))]

\* set_limits from the menu to its first confirmation prompt: the watts
\* and target prompts, the refusals, the conversion and the first read
CliSetLimits(cancel, pl1_w, pl2_w, t, rd_ok) ==
    /\ CanStart
    /\ ops' = ops + 1
    /\ LET upw == cli_unit_watts(power_unit)
           o0 == [IdleOp EXCEPT !.prog = "cli", !.fn = "set_limits",
                                !.confirm = TRUE, !.unit_watts = upw]
           o == [o0 EXCEPT !.pl1_w = pl1_w, !.pl2_w = pl2_w, !.target = CliTarget(t)]
           u == set_limits_units(upw, pl1_w, pl2_w)
           oc == [o EXCEPT !.converted = TRUE]
           o2 == [oc EXCEPT !.pl1_units = u.pl1_units, !.pl2_units = u.pl2_units]
           ctx == CASE cancel ->
                        [op |-> Done(o0, "0"), log |-> <<Ev("canceled", "none", {})>>]
                    [] ~cancel /\ cli_watts_refused(pl1_w, pl2_w) ->
                        [op |-> Done(o, "-1"), log |-> <<Ev("error", "watts", {})>>]
                    [] ~cancel /\ ~cli_watts_refused(pl1_w, pl2_w) /\ (t < 1 \/ t > 3) ->
                        [op |-> Done(o, "-1"), log |-> <<Ev("error", "target", {})>>]
                    [] OTHER ->
                        IF ~u.ok
                        THEN [op |-> Done(oc, "-1"), log |-> <<Ev("error", "units", {})>>]
                        ELSE IF t = 1 \/ t = 3
                             THEN CliMsrBlock(o2, <<>>, rd_ok)
                             ELSE CliMmioBlock(o2, <<>>)
       IN op' = ctx.op /\ log' = ctx.log
    /\ UNCHANGED <<msr, mmio, powercap, power_unit, cin, cout>>

\* set_limits: wrmsr failed: "write MSR 0x610 failed" and return -1
CliMsrWriteFailed(o, lg) ==
    [op |-> Done(o, "-1"),
     log |-> lg \o <<Ev("write_fail", "msr", o.next), Ev("error", "msr", {})>>]

\* the answer to "Write MSR?", wrmsr, and on to the MMIO block or the
\* powercap prompt
CliMsrConfirm(ans, wr_ok) ==
    /\ op.prog = "cli" /\ op.fn = "set_limits" /\ op.pc = "msr_confirm"
    /\ IF ans /\ ~wr_ok
       THEN /\ op' = CliMsrWriteFailed(op, log).op
            /\ log' = CliMsrWriteFailed(op, log).log
            /\ msr' = msr
       ELSE /\ msr' = IF ans THEN op.next ELSE msr
            /\ LET lg == Append(log, IF ans THEN Ev("write", "msr", op.next)
                                            ELSE Ev("declined", "msr", {}))
                   ctx == IF op.target = "both"
                          THEN CliMmioBlock(op, lg)
                          ELSE CliPowercapPrompt(op, lg)
               IN op' = ctx.op /\ log' = ctx.log
    /\ UNCHANGED <<mmio, powercap, power_unit, ops, cin, cout>>

\* "Write MMIO?" answered, and the value written encoded into a fresh
\* read of the register instead of the value read before the prompt
CliMmioConfirm_reread(ans) ==
    /\ op.prog = "cli" /\ op.fn = "set_limits" /\ op.pc = "mmio_confirm"
    /\ LET fresh == set_pl_units(mmio, op.pl1_units, op.pl2_units)
       IN /\ mmio' = IF ans THEN fresh ELSE mmio
          /\ LET lg == Append(log, IF ans THEN Ev("write", "mmio", fresh)
                                          ELSE Ev("declined", "mmio", {}))
                 ctx == CliPowercapPrompt(op, lg)
             IN op' = ctx.op /\ log' = ctx.log
    /\ UNCHANGED <<msr, powercap, power_unit, ops, cin, cout>>

\* the answer to "Write MMIO?", wr64, and on to the powercap prompt
CliMmioConfirm(ans) ==
    /\ op.prog = "cli" /\ op.fn = "set_limits" /\ op.pc = "mmio_confirm"
    /\ mmio' = IF ans THEN op.next ELSE mmio
    /\ LET lg == Append(log, IF ans THEN Ev("write", "mmio", op.next)
                                     ELSE Ev("declined", "mmio", {}))
           ctx == CliPowercapPrompt(op, lg)
       IN op' = ctx.op /\ log' = ctx.log
    /\ UNCHANGED <<msr, powercap, power_unit, ops, cin, cout>>

\* set_limits: write_powercap_uw failed: "write powercap failed" and
\* return -1
CliPowercapFailed(o, lg) ==
    [op |-> Done(o, "-1"),
     log |-> lg \o <<Ev("write_fail", "powercap", {}), Ev("error", "powercap", {})>>]

\* the answer to the powercap prompt and write_powercap_uw
CliPowercapConfirm(ans, outcome) ==
    /\ op.prog = "cli" /\ op.fn = "set_limits" /\ op.pc = "powercap_confirm"
    /\ LET pl1_uw == microwatts(op.pl1_w)
           pl2_uw == microwatts(op.pl2_w)
           w == write_powercap_uw(powercap, pl1_uw, pl2_uw, outcome)
       IN IF ~ans
          THEN /\ op' = Done(op, "0")
               /\ log' = Append(log, Ev("declined", "powercap", {}))
               /\ powercap' = powercap
          ELSE IF uw_is_zero(pl1_uw) \/ uw_is_zero(pl2_uw)
          THEN /\ op' = Done(op, "-1")
               /\ log' = Append(log, Ev("error", "powercap", {}))
               /\ powercap' = powercap
          ELSE /\ powercap' = w.powercap
               /\ LET ctx == IF w.ret = 0
                              THEN [op |-> Done(op, "0"),
                                    log |-> log \o <<Ev("write", "powercap", {}),
                                                     Ev("logged", "powercap", {})>>]
                              ELSE CliPowercapFailed(op, log)
                  IN op' = ctx.op /\ log' = ctx.log
    /\ UNCHANGED <<msr, mmio, power_unit, ops, cin, cout>>

----------------------------------------------------------------------------
(* limits_ui_qt: the helper boundary and apply_limits_internal.            *)

\* what the privileged helper may answer to --read: a full report, no
\* report (the helper failed), a report whose UNIT_WATTS is 0, and reports
\* with one required line missing or not a number
HelperResponses ==
    {"ok", "fail", "bad_unit", "no_power_unit", "bad_unit_watts", "no_msr", "bad_mmio"}

\* the value text of a KEY=VALUE line: a number, or text that is none
Num(v) == [t |-> "num", v |-> v]

Unparsable == [t |-> "bad"]

\* QHash::value of a key that is absent: the empty string
Lookup(out, k) == IF k \in DOMAIN out THEN out[k] ELSE [t |-> "empty"]

\* toInt / toDouble / toULongLong set ok when the text is a number
ParsesOk(out, k) == Lookup(out, k).t = "num"

\* the number a conversion returns: 0 when the text is no number
ParsedOr0(out, k) == IF ParsesOk(out, k) THEN Lookup(out, k).v ELSE 0

\* struct ReadState as constructed, with err empty
NoState ==
    [ok |-> FALSE, err |-> "", power_unit |-> 0, unit_watts |-> 0,
     msr |-> {}, mmio |-> {}, p_ratio |-> 0, core_uv_mv |-> 0]

\* parse_state that takes 0 for a register line that is missing
parse_state_default_regs(out) ==
    IF ~ParsesOk(out, "POWER_UNIT")
    THEN [NoState EXCEPT !.err = "Missing POWER_UNIT from helper."]
    ELSE IF ~ParsesOk(out, "UNIT_WATTS")
    THEN [NoState EXCEPT !.err = "Missing UNIT_WATTS from helper."]
    ELSE [NoState EXCEPT !.ok = TRUE,
                         !.power_unit = Lookup(out, "POWER_UNIT").v,
                         !.unit_watts = Lookup(out, "UNIT_WATTS").v,
                         !.msr = IF ParsesOk(out, "MSR") THEN Lookup(out, "MSR").v ELSE {},
                         !.mmio = IF ParsesOk(out, "MMIO") THEN Lookup(out, "MMIO").v ELSE {},
                         !.p_ratio = ParsedOr0(out, "P_RATIO_TARGET"),
                         !.core_uv_mv = ParsedOr0(out, "CORE_UV_MV")]

\* HelperBackend::parse_state on the KEY=VALUE lines of the helper's
\* output, a function from the keys present to their value texts: the
\* four required lines in order, then the optional ones
parse_state(out) ==
    IF ~ParsesOk(out, "POWER_UNIT")
    THEN [NoState EXCEPT !.err = "Missing POWER_UNIT from helper."]
    ELSE IF ~ParsesOk(out, "UNIT_WATTS")
    THEN [NoState EXCEPT !.err = "Missing UNIT_WATTS from helper.",
                         !.power_unit = Lookup(out, "POWER_UNIT").v]
    ELSE IF ~ParsesOk(out, "MSR")
    THEN [NoState EXCEPT !.err = "Missing MSR value from helper.",
                         !.power_unit = Lookup(out, "POWER_UNIT").v,
                         !.unit_watts = Lookup(out, "UNIT_WATTS").v]
    ELSE IF ~ParsesOk(out, "MMIO")
    THEN [NoState EXCEPT !.err = "Missing MMIO value from helper.",
                         !.power_unit = Lookup(out, "POWER_UNIT").v,
                         !.unit_watts = Lookup(out, "UNIT_WATTS").v,
                         !.msr = Lookup(out, "MSR").v]
    ELSE [NoState EXCEPT !.ok = TRUE,
                         !.power_unit = Lookup(out, "POWER_UNIT").v,
                         !.unit_watts = Lookup(out, "UNIT_WATTS").v,
                         !.msr = Lookup(out, "MSR").v,
                         !.mmio = Lookup(out, "MMIO").v,
                         !.p_ratio = ParsedOr0(out, "P_RATIO_TARGET"),
                         !.core_uv_mv = ParsedOr0(out, "CORE_UV_MV")]

\* HelperBackend::read_state: run_pkexec --read, then parse_state
read_state(h) ==
    IF ~h.run THEN [NoState EXCEPT !.err = "Failed to run helper"]
    ELSE parse_state(h.out)

\* the helper's --read: whether it ran, and the lines it printed from the
\* power unit and the two registers
HelperOutput(resp) ==
    LET full == [k \in {"POWER_UNIT", "UNIT_WATTS", "MSR", "MMIO"} |->
                    CASE k = "POWER_UNIT" -> Num(power_unit)
                      [] k = "UNIT_WATTS" -> Num(IF resp = "bad_unit" THEN 0
                                                                      ELSE Pow2(power_unit))
                      [] k = "MSR" -> Num(msr)
                      [] OTHER -> Num(mmio)]
        without(k) == [j \in DOMAIN full \ {k} |-> full[j]]
    IN [run |-> resp # "fail",
        out |-> CASE resp = "fail" -> <<>>
                  [] resp = "no_power_unit" -> without("POWER_UNIT")
                  [] resp = "bad_unit_watts" -> [full EXCEPT !["UNIT_WATTS"] = Unparsable]
                  [] resp = "no_msr" -> without("MSR")
                  [] resp = "bad_mmio" -> [full EXCEPT !["MMIO"] = Unparsable]
                  [] OTHER -> full]

\* HelperBackend::read_state as the GUI sees it: the helper reports the
\* power unit, unit_watts and both raw registers, or the call fails;
\* "bad_unit" is a report whose UNIT_WATTS is not positive
HelperReadState(resp) == read_state(HelperOutput(resp))

\* what the GUI got back from the helper, first in the record of a handler
Response(resp) == Ev("response", "state", HelperOutput(resp))

\* the helper's --write-powercap: the two endpoints, PL1 first
HelperWritePowercap(cap, pl1_uw, pl2_uw, outcome) ==
    write_powercap_uw(cap, pl1_uw, pl2_uw, outcome)

\* update_units accepting every unit_watts
update_units_accept_all(state) == state.unit_watts >= 0

\* MainWindow::update_units: refuses a unit_watts that is not positive
update_units(state) == state.unit_watts > 0

\* apply_limits_internal, end: the optional refresh and "return true";
\* apply_startup_actions then refreshes once itself
GuiFinish(o, lg) ==
    [op |-> Done(o, "true"),
     log |-> IF o.do_refresh \/ o.fn = "apply_startup_actions"
             THEN Append(lg, Ev("refresh", "none", {}))
             ELSE lg]

\* apply_limits_internal, the powercap block up to its prompt
GuiPowercapBlock(o, lg) ==
    IF ~o.powercap_on THEN GuiFinish(o, lg)
    ELSE IF uw_is_zero(microwatts(o.pl1_w)) \/ uw_is_zero(microwatts(o.pl2_w))
    THEN [op |-> Done(o, "false"), log |-> Append(lg, Ev("error", "powercap", {}))]
    ELSE [op |-> [o EXCEPT !.pc = "powercap_step"],
          log |-> IF o.confirm THEN Append(lg, Ev("prompt", "powercap", {})) ELSE lg]

\* the MMIO block encoding into state.msr instead of state.mmio
GuiMmioBlock_from_msr(o, lg) ==
    LET next == apply_pl_units(o.st_msr, o.pl1_units, o.pl2_units)
    IN [op |-> [o EXCEPT !.pc = "mmio_step", !.next = next],
        log |-> IF o.confirm
                THEN lg \o <<Ev("preview", "mmio", next), Ev("prompt", "mmio", next)>>
                ELSE lg]

\* apply_limits_internal, the MMIO block up to its prompt: the new value
\* from state.mmio and, with confirm, the "Write MMIO?" dialog showing it
GuiMmioBlock(o, lg) ==
    LET next == apply_pl_units(o.st_mmio, o.pl1_units, o.pl2_units)
    IN [op |-> [o EXCEPT !.pc = "mmio_step", !.next = next],
        log |-> IF o.confirm
                THEN lg \o <<Ev("preview", "mmio", next), Ev("prompt", "mmio", next)>>
                ELSE lg]

\* the MSR block with the two limits exchanged when confirm is off
GuiMsrBlock_unconfirmed_swap(o, lg) ==
    LET next == IF o.confirm
                THEN apply_pl_units(o.st_msr, o.pl1_units, o.pl2_units)
                ELSE apply_pl_units(o.st_msr, o.pl2_units, o.pl1_units)
    IN [op |-> [o EXCEPT !.pc = "msr_step", !.next = next],
        log |-> IF o.confirm
                THEN lg \o <<Ev("preview", "msr", next), Ev("prompt", "msr", next)>>
                ELSE lg]

\* apply_limits_internal, the MSR block up to its prompt
GuiMsrBlock(o, lg) ==
    LET next == apply_pl_units(o.st_msr, o.pl1_units, o.pl2_units)
    IN [op |-> [o EXCEPT !.pc = "msr_step", !.next = next],
        log |-> IF o.confirm
                THEN lg \o <<Ev("preview", "msr", next), Ev("prompt", "msr", next)>>
                ELSE lg]

\* apply_limits_internal from its call to the first dialog or helper write:
\* read_state, update_units, build_units and the first block
apply_limits_internal(fn, target, confirm, do_refresh, pl1_w, pl2_w, powercap_on, resp) ==
    /\ CanStart
    /\ ops' = ops + 1
    /\ LET state == HelperReadState(resp)
           o == [IdleOp EXCEPT !.prog = "gui", !.fn = fn, !.target = target,
                               !.confirm = confirm, !.do_refresh = do_refresh,
                               !.powercap_on = powercap_on,
                               !.pl1_w = pl1_w, !.pl2_w = pl2_w]
           u == build_units(state.unit_watts, pl1_w, pl2_w)
           oc == [o EXCEPT !.unit_watts = state.unit_watts, !.converted = TRUE,
                           !.st_msr = state.msr, !.st_mmio = state.mmio]
           o2 == [oc EXCEPT !.pl1_units = u.pl1_units, !.pl2_units = u.pl2_units]
           rd == <<Response(resp),
                   Ev("read", "msr", state.msr), Ev("read", "mmio", state.mmio),
                   Ev("read", "unit_watts", state.unit_watts)>>
           ctx == IF ~state.ok
                  THEN [op |-> Done(o, "false"),
                        log |-> <<Response(resp),
                                  Ev("read_fail", "state", {}), Ev("error", "state", {})>>]
                  ELSE IF ~update_units(state)
                  THEN [op |-> Done(o, "false"), log |-> Append(rd, Ev("error", "unit", {}))]
                  ELSE IF ~u.ok
                  THEN [op |-> Done(oc, "false"), log |-> Append(rd, Ev("error", "units", {}))]
                  ELSE IF target \in {"msr", "both"}
                       THEN GuiMsrBlock(o2, rd)
                       ELSE GuiMmioBlock(o2, rd)
       IN op' = ctx.op /\ log' = ctx.log
    /\ UNCHANGED <<msr, mmio, powercap, power_unit, cin, cout>>

\* MainWindow::apply_limits: the Set MSR / Set MMIO / Set Both buttons
apply_limits(target, pl1_w, pl2_w, powercap_on, resp) ==
    apply_limits_internal("apply_limits", target, TRUE, TRUE, pl1_w, pl2_w, powercap_on, resp)

\* MainWindow::apply_startup_actions with only "apply limits" ticked
apply_startup_actions(target, pl1_w, pl2_w, powercap_on, resp) ==
    apply_limits_internal("apply_startup_actions", target, FALSE, FALSE,
                          pl1_w, pl2_w, powercap_on, resp)

\* apply_limits_internal: write_msr failed: show_error and return false
GuiMsrWriteFailed(o, lg) ==
    [op |-> Done(o, "false"),
     log |-> lg \o <<Ev("write_fail", "msr", o.next), Ev("error", "msr", {})>>]

\* apply_limits_internal: write_mmio failed: show_error and return false
GuiMmioWriteFailed(o, lg) ==
    [op |-> Done(o, "false"),
     log |-> lg \o <<Ev("write_fail", "mmio", o.next), Ev("error", "mmio", {})>>]

\* a failed write_powercap that is neither shown nor returned as failure
GuiPowercapFailed_silent(o, lg) ==
    [op |-> Done(o, "true"), log |-> Append(lg, Ev("write_fail", "powercap", {}))]

\* apply_limits_internal: write_powercap failed: show_error and return false
GuiPowercapFailed(o, lg) ==
    [op |-> Done(o, "false"),
     log |-> lg \o <<Ev("write_fail", "powercap", {}), Ev("error", "powercap", {})>>]

\* the MSR step storing the new MSR value to the MMIO register as well
GuiMsrStep_both_registers(ans, wr_ok) ==
    /\ op.prog = "gui" /\ op.pc = "msr_step"
    /\ IF op.confirm /\ ~ans
       THEN /\ op' = Done(op, "false")
            /\ log' = Append(log, Ev("declined", "msr", {}))
            /\ msr' = msr /\ mmio' = mmio
       ELSE IF ~wr_ok
       THEN /\ op' = GuiMsrWriteFailed(op, log).op
            /\ log' = GuiMsrWriteFailed(op, log).log
            /\ msr' = msr /\ mmio' = mmio
       ELSE /\ msr' = op.next /\ mmio' = op.next
            /\ LET lg == log \o <<Ev("write", "msr", op.next), Ev("logged", "msr", op.next)>>
                   ctx == IF op.target = "both"
                          THEN GuiMmioBlock(op, lg)
                          ELSE GuiPowercapBlock(op, lg)
               IN op' = ctx.op /\ log' = ctx.log
    /\ UNCHANGED <<powercap, power_unit, ops, cin, cout>>

\* apply_limits_internal: the answer to "Write MSR?" (with confirm), the
\* helper's --write-msr, then the MMIO block or the powercap block
GuiMsrStep(ans, wr_ok) ==
    /\ op.prog = "gui" /\ op.pc = "msr_step"
    /\ IF op.confirm /\ ~ans
       THEN /\ op' = Done(op, "false")
            /\ log' = Append(log, Ev("declined", "msr", {}))
            /\ msr' = msr
       ELSE IF ~wr_ok
       THEN /\ op' = GuiMsrWriteFailed(op, log).op
            /\ log' = GuiMsrWriteFailed(op, log).log
            /\ msr' = msr
       ELSE /\ msr' = op.next
            /\ LET lg == log \o <<Ev("write", "msr", op.next), Ev("logged", "msr", op.next)>>
                   ctx == IF op.target = "both"
                          THEN GuiMmioBlock(op, lg)
                          ELSE GuiPowercapBlock(op, lg)
               IN op' = ctx.op /\ log' = ctx.log
    /\ UNCHANGED <<mmio, powercap, power_unit, ops, cin, cout>>

\* the MMIO step going on to the powercap block after a declined prompt
GuiMmioStep_decline_continues(ans, wr_ok) ==
    /\ op.prog = "gui" /\ op.pc = "mmio_step"
    /\ IF op.confirm /\ ~ans
       THEN /\ op' = GuiPowercapBlock(op, Append(log, Ev("declined", "mmio", {}))).op
            /\ log' = GuiPowercapBlock(op, Append(log, Ev("declined", "mmio", {}))).log
            /\ mmio' = mmio
       ELSE IF ~wr_ok
       THEN /\ op' = GuiMmioWriteFailed(op, log).op
            /\ log' = GuiMmioWriteFailed(op, log).log
            /\ mmio' = mmio
       ELSE /\ mmio' = op.next
            /\ LET lg == log \o <<Ev("write", "mmio", op.next), Ev("logged", "mmio", op.next)>>
                   ctx == GuiPowercapBlock(op, lg)
               IN op' = ctx.op /\ log' = ctx.log
    /\ UNCHANGED <<msr, powercap, power_unit, ops, cin, cout>>

\* apply_limits_internal: the answer to "Write MMIO?" (with confirm), the
\* helper's --write-mmio, then the powercap block
GuiMmioStep(ans, wr_ok) ==
    /\ op.prog = "gui" /\ op.pc = "mmio_step"
    /\ IF op.confirm /\ ~ans
       THEN /\ op' = Done(op, "false")
            /\ log' = Append(log, Ev("declined", "mmio", {}))
            /\ mmio' = mmio
       ELSE IF ~wr_ok
       THEN /\ op' = GuiMmioWriteFailed(op, log).op
            /\ log' = GuiMmioWriteFailed(op, log).log
            /\ mmio' = mmio
       ELSE /\ mmio' = op.next
            /\ LET lg == log \o <<Ev("write", "mmio", op.next), Ev("logged", "mmio", op.next)>>
                   ctx == GuiPowercapBlock(op, lg)
               IN op' = ctx.op /\ log' = ctx.log
    /\ UNCHANGED <<msr, powercap, power_unit, ops, cin, cout>>

\* apply_limits_internal: the answer to "Write kernel powercap?" (with
\* confirm), the helper's --write-powercap, then the end of the function
GuiPowercapStep(ans, outcome) ==
    /\ op.prog = "gui" /\ op.pc = "powercap_step"
    /\ LET w == HelperWritePowercap(powercap, microwatts(op.pl1_w),
                                    microwatts(op.pl2_w), outcome)
       IN IF op.confirm /\ ~ans
          THEN /\ op' = Done(op, "false")
               /\ log' = Append(log, Ev("declined", "powercap", {}))
               /\ powercap' = powercap
          ELSE IF w.ret # 0
          THEN /\ op' = GuiPowercapFailed(op, log).op
               /\ log' = GuiPowercapFailed(op, log).log
               /\ powercap' = w.powercap
          ELSE /\ powercap' = w.powercap
               /\ LET ctx == GuiFinish(op, log \o <<Ev("write", "powercap", {}),
                                                    Ev("logged", "powercap", {})>>)
                  IN op' = ctx.op /\ log' = ctx.log
    /\ UNCHANGED <<msr, mmio, power_unit, ops, cin, cout>>

----------------------------------------------------------------------------
(* Inspection: limits_ui.c show_status and MainWindow::refresh.            *)

\* show_status: rd64 of the MMIO register, rdmsr, and the two print_pl
\* lines; a failed rdmsr prints the error and returns
CliShowStatus(rd_ok) ==
    /\ CanStart
    /\ ops' = ops + 1
    /\ op' = Done([IdleOp EXCEPT !.prog = "cli", !.fn = "show_status",
                                 !.st_msr = IF rd_ok THEN msr ELSE {},
                                 !.st_mmio = mmio], "void")
    /\ log' = IF rd_ok
              THEN <<Ev("read", "mmio", mmio), Ev("read", "msr", msr),
                     Ev("report", "msr", msr), Ev("report", "mmio", mmio)>>
              ELSE <<Ev("read", "mmio", mmio), Ev("read_fail", "msr", {}),
                     Ev("error", "msr", {})>>
    /\ UNCHANGED <<msr, mmio, powercap, power_unit, cin, cout>>

\* MainWindow::refresh: read_state, update_units, then update_msr and
\* update_mmio show the two registers
GuiRefresh(resp) ==
    /\ CanStart
    /\ ops' = ops + 1
    /\ LET state == HelperReadState(resp)
           o == [IdleOp EXCEPT !.prog = "gui", !.fn = "refresh"]
           rd == <<Response(resp),
                   Ev("read", "msr", state.msr), Ev("read", "mmio", state.mmio),
                   Ev("read", "unit_watts", state.unit_watts)>>
       IN IF ~state.ok
          THEN /\ op' = Done(o, "void")
               /\ log' = <<Response(resp),
                           Ev("read_fail", "state", {}), Ev("error", "state", {})>>
          ELSE IF ~update_units(state)
          THEN /\ op' = Done(o, "void")
               /\ log' = Append(rd, Ev("error", "unit", {}))
          ELSE /\ op' = Done([o EXCEPT !.unit_watts = state.unit_watts,
                                       !.st_msr = state.msr, !.st_mmio = state.mmio],
                             "void")
               /\ log' = rd \o <<Ev("report", "msr", state.msr),
                                  Ev("report", "mmio", state.mmio)>>
    /\ UNCHANGED <<msr, mmio, powercap, power_unit, cin, cout>>

----------------------------------------------------------------------------
(* Sync in both front ends, and mchbar_pl_write.                           *)

\* limits_ui.c sync_limits from the menu to its confirmation prompt;
\* dir 1 is MSR -> MMIO, dir 2 is MMIO -> MSR
sync_limits(cancel, dir, rd_ok) ==
    /\ CanStart
    /\ ops' = ops + 1
    /\ LET o == [IdleOp EXCEPT !.prog = "cli", !.fn = "sync_limits", !.confirm = TRUE]
           ctx == CASE cancel ->
                        [op |-> Done(o, "0"), log |-> <<Ev("canceled", "none", {})>>]
                    [] ~cancel /\ dir = 1 /\ ~rd_ok ->
                        [op |-> Done(o, "-1"),
                         log |-> <<Ev("read_fail", "msr", {}), Ev("error", "msr", {})>>]
                    [] ~cancel /\ dir = 1 /\ rd_ok ->
                        [op |-> [o EXCEPT !.pc = "sync_confirm", !.target = "mmio",
                                          !.st_msr = msr, !.next = msr],
                         log |-> <<Ev("read", "msr", msr), Ev("preview", "mmio", msr),
                                   Ev("prompt", "mmio", msr)>>]
                    [] ~cancel /\ dir = 2 ->
                        [op |-> [o EXCEPT !.pc = "sync_confirm", !.target = "msr",
                                          !.st_mmio = mmio, !.next = mmio],
                         log |-> <<Ev("read", "mmio", mmio), Ev("preview", "msr", mmio),
                                   Ev("prompt", "msr", mmio)>>]
                    [] OTHER ->
                        [op |-> Done(o, "-1"), log |-> <<Ev("error", "direction", {})>>]
       IN op' = ctx.op /\ log' = ctx.log
    /\ UNCHANGED <<msr, mmio, powercap, power_unit, cin, cout>>

\* sync_limits: the answer to the prompt and the write (wr64 or wrmsr)
CliSyncConfirm(ans, wr_ok) ==
    /\ op.prog = "cli" /\ op.fn = "sync_limits" /\ op.pc = "sync_confirm"
    /\ IF ~ans
       THEN /\ op' = Done(op, "0")
            /\ log' = Append(log, Ev("declined", op.target, {}))
            /\ UNCHANGED <<msr, mmio>>
       ELSE IF op.target = "mmio"
       THEN /\ mmio' = op.next
            /\ msr' = msr
            /\ op' = Done(op, "0")
            /\ log' = Append(log, Ev("write", "mmio", op.next))
       ELSE IF wr_ok
       THEN /\ msr' = op.next
            /\ mmio' = mmio
            /\ op' = Done(op, "0")
            /\ log' = Append(log, Ev("write", "msr", op.next))
       ELSE /\ op' = Done(op, "-1")
            /\ log' = log \o <<Ev("write_fail", "msr", op.next), Ev("error", "msr", {})>>
            /\ UNCHANGED <<msr, mmio>>
    /\ UNCHANGED <<powercap, power_unit, ops, cin, cout>>

\* a sync that carries over the two unit fields only
GuiSync_fields_only(dst, resp) ==
    /\ CanStart
    /\ ops' = ops + 1
    /\ LET state == HelperReadState(resp)
           val == IF dst = "mmio"
                  THEN Or(And(state.mmio, Not64(U64(0, 32767, 0, 32767))),
                          And(state.msr, U64(0, 32767, 0, 32767)))
                  ELSE Or(And(state.msr, Not64(U64(0, 32767, 0, 32767))),
                          And(state.mmio, U64(0, 32767, 0, 32767)))
           o == [IdleOp EXCEPT !.prog = "gui",
                               !.fn = IF dst = "mmio" THEN "sync_msr_to_mmio"
                                                      ELSE "sync_mmio_to_msr",
                               !.confirm = TRUE, !.target = dst]
       IN IF ~state.ok
          THEN /\ op' = Done(o, "void")
               /\ log' = <<Response(resp),
                           Ev("read_fail", "state", {}), Ev("error", "state", {})>>
          ELSE /\ op' = [o EXCEPT !.pc = "sync_step", !.st_msr = state.msr,
                                  !.st_mmio = state.mmio, !.next = val]
               /\ log' = <<Response(resp),
                           Ev("read", "msr", state.msr), Ev("read", "mmio", state.mmio),
                           Ev("preview", dst, val), Ev("prompt", dst, val)>>
    /\ UNCHANGED <<msr, mmio, powercap, power_unit, cin, cout>>

\* MainWindow::sync_msr_to_mmio (dst = "mmio") and sync_mmio_to_msr
\* (dst = "msr") from the click to the confirmation dialog
GuiSync(dst, resp) ==
    /\ CanStart
    /\ ops' = ops + 1
    /\ LET state == HelperReadState(resp)
           val == IF dst = "mmio" THEN state.msr ELSE state.mmio
           o == [IdleOp EXCEPT !.prog = "gui",
                               !.fn = IF dst = "mmio" THEN "sync_msr_to_mmio"
                                                      ELSE "sync_mmio_to_msr",
                               !.confirm = TRUE, !.target = dst]
       IN IF ~state.ok
          THEN /\ op' = Done(o, "void")
               /\ log' = <<Response(resp),
                           Ev("read_fail", "state", {}), Ev("error", "state", {})>>
          ELSE /\ op' = [o EXCEPT !.pc = "sync_step", !.st_msr = state.msr,
                                  !.st_mmio = state.mmio, !.next = val]
               /\ log' = <<Response(resp),
                           Ev("read", "msr", state.msr), Ev("read", "mmio", state.mmio),
                           Ev("preview", dst, val), Ev("prompt", dst, val)>>
    /\ UNCHANGED <<msr, mmio, powercap, power_unit, cin, cout>>

\* a sync that also stores the destination's old value in the source
GuiSyncStep_swap(ans, wr_ok) ==
    /\ op.prog = "gui" /\ op.pc = "sync_step"
    /\ IF ~ans \/ ~wr_ok
       THEN /\ op' = Done(op, "void")
            /\ log' = Append(log, Ev("declined", op.target, {}))
            /\ UNCHANGED <<msr, mmio>>
       ELSE /\ msr' = IF op.target = "msr" THEN op.next ELSE mmio
            /\ mmio' = IF op.target = "mmio" THEN op.next ELSE msr
            /\ op' = Done(op, "void")
            /\ log' = log \o <<Ev("write", op.target, op.next),
                               Ev("logged", op.target, op.next),
                               Ev("refresh", "none", {})>>
    /\ UNCHANGED <<powercap, power_unit, ops, cin, cout>>

\* the GUI sync handlers: the answer to the dialog, the helper write, the
\* log line and the refresh
GuiSyncStep(ans, wr_ok) ==
    /\ op.prog = "gui" /\ op.pc = "sync_step"
    /\ IF ~ans
       THEN /\ op' = Done(op, "void")
            /\ log' = Append(log, Ev("declined", op.target, {}))
            /\ UNCHANGED <<msr, mmio>>
       ELSE IF ~wr_ok
       THEN /\ op' = Done(op, "void")
            /\ log' = log \o <<Ev("write_fail", op.target, op.next),
                               Ev("error", op.target, {})>>
            /\ UNCHANGED <<msr, mmio>>
       ELSE /\ msr' = IF op.target = "msr" THEN op.next ELSE msr
            /\ mmio' = IF op.target = "mmio" THEN op.next ELSE mmio
            /\ op' = Done(op, "void")
            /\ log' = log \o <<Ev("write", op.target, op.next),
                               Ev("logged", op.target, op.next),
                               Ev("refresh", "none", {})>>
    /\ UNCHANGED <<powercap, power_unit, ops, cin, cout>>

\* whole PL1 and PL2 watts given to mchbar_pl_write --set: 0 is refused
PlwWatts == {<<0, 150>>, <<55, 150>>}

\* mchbar_pl_write.c main with --set PL1_W PL2_W: one run of the program
PlwSet(pl1w, pl2w) ==
    /\ CanStart
    /\ ops' = ops + 1
    /\ LET o == [IdleOp EXCEPT !.prog = "plw", !.fn = "set", !.target = "mmio",
                               !.st_mmio = mmio]
           pl1_units == to_uint16(pl1w * 8)
           pl2_units == to_uint16(pl2w * 8)
           target == plw_set_target(mmio, pl1_units, pl2_units)
       IN IF pl1w <= 0 \/ pl2w <= 0 \/ pl1w > 500 \/ pl2w > 500
          THEN /\ op' = Done(o, "2")
               /\ log' = <<Ev("read", "mmio", mmio), Ev("error", "watts", {})>>
               /\ mmio' = mmio
          ELSE /\ op' = Done([o EXCEPT !.pl1_units = pl1_units, !.pl2_units = pl2_units,
                                       !.next = target], "0")
               /\ log' = <<Ev("read", "mmio", mmio), Ev("preview", "mmio", target),
                           Ev("write", "mmio", target), Ev("read", "mmio", target)>>
               /\ mmio' = target
    /\ UNCHANGED <<msr, powercap, power_unit, cin, cout>>

\* mchbar_pl_write.c main with --restore HEX64: one run of the program
PlwRestore(v) ==
    /\ CanStart
    /\ ops' = ops + 1
    /\ op' = Done([IdleOp EXCEPT !.prog = "plw", !.fn = "restore", !.target = "mmio",
                                 !.st_mmio = mmio, !.next = v], "0")
    /\ log' = <<Ev("read", "mmio", mmio), Ev("preview", "mmio", v),
                Ev("write", "mmio", v), Ev("read", "mmio", v)>>
    /\ mmio' = v
    /\ UNCHANGED <<msr, powercap, power_unit, cin, cout>>

----------------------------------------------------------------------------
(* The workflow specification.                                             *)

Init ==
    /\ msr \in RegSamples
    /\ mmio \in RegSamples
    /\ powercap = [pl1 |-> microwatts(5500), pl2 |-> microwatts(15700)]
    /\ power_unit \in WfPowerUnits
    /\ op = IdleOp
    /\ log = <<>>
    /\ ops = 0
    /\ cin = NoCodec
    /\ cout = NoResult

Next ==
    \/ Return
    \/ \E cancel \in BOOLEAN, w \in CliWatts, t \in 1..4, rd_ok \in BOOLEAN :
            CliSetLimits(cancel, w[1], w[2], t, rd_ok)
    \/ \E ans \in BOOLEAN, wr_ok \in BOOLEAN : CliMsrConfirm(ans, wr_ok)
    \/ \E ans \in BOOLEAN : CliMmioConfirm(ans)
    \/ \E ans \in BOOLEAN, outcome \in PowercapOutcomes : CliPowercapConfirm(ans, outcome)
    \/ \E target \in Targets, w \in WfWatts,
          powercap_on \in BOOLEAN, resp \in HelperResponses :
            apply_limits(target, w[1], w[2], powercap_on, resp)
    \/ \E target \in Targets, w \in WfWatts,
          powercap_on \in BOOLEAN, resp \in HelperResponses :
            apply_startup_actions(target, w[1], w[2], powercap_on, resp)
    \/ \E ans \in BOOLEAN, wr_ok \in BOOLEAN : GuiMsrStep(ans, wr_ok)
    \/ \E ans \in BOOLEAN, wr_ok \in BOOLEAN : GuiMmioStep(ans, wr_ok)
    \/ \E ans \in BOOLEAN, outcome \in PowercapOutcomes : GuiPowercapStep(ans, outcome)
    \/ \E cancel \in BOOLEAN, dir \in 1..3, rd_ok \in BOOLEAN : sync_limits(cancel, dir, rd_ok)
    \/ \E ans \in BOOLEAN, wr_ok \in BOOLEAN : CliSyncConfirm(ans, wr_ok)
    \/ \E dst \in {"msr", "mmio"}, resp \in HelperResponses : GuiSync(dst, resp)
    \/ \E ans \in BOOLEAN, wr_ok \in BOOLEAN : GuiSyncStep(ans, wr_ok)
    \/ \E w \in PlwWatts : PlwSet(w[1], w[2])
    \/ \E v \in RegSamples : PlwRestore(v)
    \/ \E rd_ok \in BOOLEAN : CliShowStatus(rd_ok)
    \/ \E resp \in HelperResponses : GuiRefresh(resp)

Spec == Init /\ [][Next]_vars

----------------------------------------------------------------------------
(* A second writer.  Nothing is locked between the read of a register and  *)
(* its write: while set_limits waits at a prompt or apply_limits_internal  *)
(* at a dialog, another process (a run of mchbar_pl_write --restore, the   *)
(* other front end) can store to the same register.                        *)

\* what the second writer stores: other opaque bits, other unit fields
OtherValues == { U64(43690, 21845, 43690, 21845) }

\* a store of v to register r by the second writer during an apply
\* operation of this session, after the operation has read r and before
\* it has written r, once per operation
OtherWriter(r, v) ==
    /\ op.fn \in {"set_limits", "apply_limits", "apply_startup_actions"}
    /\ op.pc \notin {"idle", "done"}
    /\ op.target \in {r, "both"}
    /\ \E i \in DOMAIN log : log[i].ev = "read" /\ log[i].reg = r
    /\ \A i \in DOMAIN log :
          /\ log[i].ev # "external"
          /\ ~(log[i].ev \in {"write", "write_fail"} /\ log[i].reg = r)
    /\ msr' = IF r = "msr" THEN v ELSE msr
    /\ mmio' = IF r = "mmio" THEN v ELSE mmio
    /\ log' = Append(log, Ev("external", r, v))
    /\ UNCHANGED <<powercap, power_unit, op, ops, cin, cout>>

\* the apply operations of both front ends, and the second writer
RaceNext ==
    \/ Return
    \/ \E cancel \in BOOLEAN, w \in CliWatts, t \in 1..4, rd_ok \in BOOLEAN :
            CliSetLimits(cancel, w[1], w[2], t, rd_ok)
    \/ \E ans \in BOOLEAN, wr_ok \in BOOLEAN : CliMsrConfirm(ans, wr_ok)
    \/ \E ans \in BOOLEAN : CliMmioConfirm(ans)
    \/ \E ans \in BOOLEAN, outcome \in PowercapOutcomes : CliPowercapConfirm(ans, outcome)
    \/ \E target \in Targets, w \in WfWatts,
          powercap_on \in BOOLEAN, resp \in {"ok", "fail"} :
            apply_limits(target, w[1], w[2], powercap_on, resp)
    \/ \E ans \in BOOLEAN, wr_ok \in BOOLEAN : GuiMsrStep(ans, wr_ok)
    \/ \E ans \in BOOLEAN, wr_ok \in BOOLEAN : GuiMmioStep(ans, wr_ok)
    \/ \E ans \in BOOLEAN, outcome \in PowercapOutcomes : GuiPowercapStep(ans, outcome)
    \/ \E r \in {"msr", "mmio"}, v \in OtherValues : OtherWriter(r, v)

SpecRace == Init /\ [][RaceNext]_vars

----------------------------------------------------------------------------
(* parse_state on the outputs a helper may print.                          *)

\* the lines parse_state requires
RequiredKeys == {"POWER_UNIT", "UNIT_WATTS", "MSR", "MMIO"}

\* two of the optional lines parse_state looks up
OptionalKeys == {"P_RATIO_TARGET", "CORE_UV_MV"}

\* a line whose key parse_state never looks up
UnknownKeys == {"FOO"}

ParseKeys == RequiredKeys \cup OptionalKeys \cup UnknownKeys

\* a well-formed value of each line
GoodValue(k) ==
    CASE k = "POWER_UNIT" -> Num(3)
      [] k = "UNIT_WATTS" -> Num(8)
      [] k = "MSR" -> Num(U64(66, 34024, 223, 33208))
      [] k = "MMIO" -> Num(U64(0, 1256, 0, 440))
      [] k = "P_RATIO_TARGET" -> Num(40)
      [] k = "CORE_UV_MV" -> Num(-50)
      [] OTHER -> Num(1)

\* every line is absent, present with text that is no number, or well formed
ParseInit ==
    /\ \E cls \in [ParseKeys -> {"absent", "bad", "good"}] :
          cin = [kind |-> "parse",
                 out |-> [k \in {j \in ParseKeys : cls[j] # "absent"} |->
                             IF cls[k] = "bad" THEN Unparsable ELSE GoodValue(k)]]
    /\ cout = NoResult
    /\ msr = {} /\ mmio = {}
    /\ powercap = [pl1 |-> microwatts(5500), pl2 |-> microwatts(15700)]
    /\ power_unit = 3
    /\ op = IdleOp
    /\ log = <<>>
    /\ ops = 0

CodecParseState ==
    /\ cin.kind = "parse" /\ cout.fn = "none"
    /\ cout' = [fn |-> "parse_state", res |-> parse_state(cin.out)]
    /\ UNCHANGED <<cin, wf_vars, hw_vars>>

ParseNext == CodecParseState

SpecParse == ParseInit /\ [][ParseNext]_vars

----------------------------------------------------------------------------
(* mchbar_base.h: the host-bridge locator and the MCHBAR base.             *)

\* vendor_val != 0x8086u
IntelVendor == 32902

\* (class_val & 0xFFFF00u) != 0x060000u
HostBridgeClass == 393216

\* class_val & 0xFFFF00u
ClassMasked(c) == ((c \div 256) % 65536) * 256

\* an attribute mchbar_read_sysfs_hex_u32 could not open or parse
Unreadable == -1

\* the conventional device, checked first
PrimaryName == "0000:00:00.0"

\* d_name[0] == '.'
DotNames == {".", ".."}

\* the entry of /sys/bus/pci/devices with the given name; a path that
\* does not exist has no class and no vendor file
SysfsDevice(sys, name) ==
    IF \E i \in DOMAIN sys.entries : sys.entries[i].name = name
    THEN sys.entries[CHOOSE i \in DOMAIN sys.entries : sys.entries[i].name = name]
    ELSE [name |-> name, vendor |-> Unreadable, class |-> Unreadable]

\* the host-bridge test without the vendor comparison
mchbar_is_intel_host_bridge_any_vendor(dev) ==
    IF dev.class = Unreadable THEN FALSE
    ELSE IF dev.vendor = Unreadable THEN FALSE
    ELSE ClassMasked(dev.class) = HostBridgeClass

\* mchbar_is_intel_host_bridge on the class and vendor files of a device
mchbar_is_intel_host_bridge(dev) ==
    IF dev.class = Unreadable THEN FALSE
    ELSE IF dev.vendor = Unreadable THEN FALSE
    ELSE IF dev.vendor # IntelVendor THEN FALSE
    ELSE IF ClassMasked(dev.class) # HostBridgeClass THEN FALSE
    ELSE TRUE

\* the readdir loop from entry i on: the index of the first entry that is
\* no dot name and is an Intel host bridge, 0 when readdir returns NULL
RECURSIVE readdir_loop(_, _)
readdir_loop(sys, i) ==
    IF i > Len(sys.entries) THEN 0
    ELSE IF sys.entries[i].name \in DotNames THEN readdir_loop(sys, i + 1)
    ELSE IF ~mchbar_is_intel_host_bridge(SysfsDevice(sys, sys.entries[i].name))
    THEN readdir_loop(sys, i + 1)
    ELSE i

\* mchbar_find_host_bridge_config: the primary device, else the first
\* match of the enumeration; out_path holds PATH_MAX bytes, which no
\* device path plus "/config" exceeds
mchbar_find_host_bridge_config(sys) ==
    IF mchbar_is_intel_host_bridge(SysfsDevice(sys, PrimaryName))
    THEN [ret |-> 0, device |-> PrimaryName, err |-> ""]
    ELSE IF ~sys.dir_ok
    THEN [ret |-> -1, device |-> "", err |-> "open /sys/bus/pci/devices failed"]
    ELSE IF readdir_loop(sys, 1) = 0
    THEN [ret |-> -1, device |-> "", err |-> "Intel host bridge not found"]
    ELSE [ret |-> 0, device |-> sys.entries[readdir_loop(sys, 1)].name, err |-> ""]

\* mchbar_read_config_u64: open, lseek, read of 8 bytes; out is written
\* only after a full read
mchbar_read_config_u64(cfg, out0) ==
    IF ~cfg.open_ok THEN [ret |-> -1, out |-> out0, err |-> "open PCI config failed"]
    ELSE IF ~cfg.seek_ok THEN [ret |-> -1, out |-> out0, err |-> "seek PCI config failed"]
    ELSE IF cfg.n # 8
    THEN [ret |-> -1, out |-> out0,
          err |-> IF cfg.n < 0 THEN "read PCI config failed" ELSE "short read PCI config"]
    ELSE [ret |-> 0, out |-> cfg.val, err |-> ""]

\* mchbar_get_base without the test of the enable bit
mchbar_get_base_no_enable_test(sys, cfg, out_base0) ==
    LET found == mchbar_find_host_bridge_config(sys)
        rd == mchbar_read_config_u64(cfg, {})
        base == rd.out \ (0..11)
    IN IF found.ret # 0 THEN [ret |-> -1, out_base |-> out_base0, err |-> found.err]
       ELSE IF rd.ret # 0 THEN [ret |-> -1, out_base |-> out_base0, err |-> rd.err]
       ELSE IF base = {}
       THEN [ret |-> -1, out_base |-> out_base0, err |-> "MCHBAR base resolved to 0"]
       ELSE [ret |-> 0, out_base |-> base, err |-> ""]

\* mchbar_get_base: locate the host bridge, read config +0x48, test bit 0,
\* clear the low 12 bits, refuse a zero base
mchbar_get_base(sys, cfg, out_base0) ==
    LET found == mchbar_find_host_bridge_config(sys)
        rd == mchbar_read_config_u64(cfg, {})
        base == And(rd.out, Not64(0..11))
    IN IF found.ret # 0 THEN [ret |-> -1, out_base |-> out_base0, err |-> found.err]
       ELSE IF rd.ret # 0 THEN [ret |-> -1, out_base |-> out_base0, err |-> rd.err]
       ELSE IF And(rd.out, {0}) = {}
       THEN [ret |-> -1, out_base |-> out_base0, err |-> "MCHBAR appears disabled"]
       ELSE IF base = {}
       THEN [ret |-> -1, out_base |-> out_base0, err |-> "MCHBAR base resolved to 0"]
       ELSE [ret |-> 0, out_base |-> base, err |-> ""]

\* device names of the enumeration, "." among them
DevNames == {PrimaryName, "0000:00:1f.0", "0000:01:00.0", "."}

\* vendors: Intel, another one (0x1022), no readable vendor file
VendorSamples == {IntelVendor, 4130, Unreadable}

\* classes: 0x060000, 0x060001, 0x030000, no readable class file
ClassSamples == {HostBridgeClass, 393217, 196608, Unreadable}

\* at most this many directory entries
MaxDevs == 3

\* readdir orders: sequences of distinct names
DevOrders ==
    {o \in UNION {[1..n -> DevNames] : n \in 0..MaxDevs} :
        \A i, j \in DOMAIN o : i # j => o[i] # o[j]}

\* values of config +0x48: 0, 1, 0xFEDC0001, 0xFEDC0000, 0xFFF,
\* 0x1_0000_0001 and all ones
BaseSamples ==
    { {}, {0}, U64(0, 0, 65244, 1), U64(0, 0, 65244, 0), 0..11,
      U64(0, 1, 0, 1), U64(65535, 65535, 65535, 65535) }

\* what out_base holds before the call
OutBaseBefore == U64(43690, 43690, 43690, 43690)

\* bytes returned by read: an error, nothing, half, all
ReadCounts == {-1, 0, 4, 8}

BaseInit ==
    /\ \/ \E o \in DevOrders, v \in [DevNames -> VendorSamples],
             c \in [DevNames -> ClassSamples], dir_ok \in BOOLEAN :
            cin = [kind |-> "find",
                   sys |-> [dir_ok |-> dir_ok,
                            entries |-> [i \in DOMAIN o |->
                                [name |-> o[i],
                                 vendor |-> IF o[i] \in DotNames THEN Unreadable ELSE v[o[i]],
                                 class |-> IF o[i] \in DotNames THEN Unreadable ELSE c[o[i]]]]]]
       \/ \E has_bridge \in BOOLEAN, open_ok \in BOOLEAN, seek_ok \in BOOLEAN,
             n \in ReadCounts, val \in BaseSamples :
            cin = [kind |-> "base",
                   sys |-> [dir_ok |-> TRUE,
                            entries |-> IF has_bridge
                                        THEN <<[name |-> PrimaryName, vendor |-> IntelVendor,
                                                class |-> HostBridgeClass]>>
                                        ELSE <<>>],
                   cfg |-> [open_ok |-> open_ok, seek_ok |-> seek_ok, n |-> n, val |-> val]]
    /\ cout = NoResult
    /\ msr = {} /\ mmio = {}
    /\ powercap = [pl1 |-> microwatts(5500), pl2 |-> microwatts(15700)]
    /\ power_unit = 3
    /\ op = IdleOp
    /\ log = <<>>
    /\ ops = 0

CodecFindHostBridge ==
    /\ cin.kind = "find" /\ cout.fn = "none"
    /\ cout' = [fn |-> "mchbar_find_host_bridge_config",
                res |-> mchbar_find_host_bridge_config(cin.sys)]
    /\ UNCHANGED <<cin, wf_vars, hw_vars>>

CodecGetBase ==
    /\ cin.kind = "base" /\ cout.fn = "none"
    /\ cout' = [fn |-> "mchbar_get_base",
                res |-> mchbar_get_base(cin.sys, cin.cfg, OutBaseBefore)]
    /\ UNCHANGED <<cin, wf_vars, hw_vars>>

BaseNext == CodecFindHostBridge \/ CodecGetBase

SpecBase == BaseInit /\ [][BaseNext]_vars

----------------------------------------------------------------------------
(* The main functions of limits_ui, mchbar_pl_write, mchbar_read and       *)
(* mchbar_scan, as the descriptors and the mapping each holds on its way   *)
(* to a return.                                                            *)

Programs == {"limits_ui", "mchbar_pl_write", "mchbar_read", "mchbar_scan"}

\* the command line, or for limits_ui the way the menu loop ends
Argv(prog) ==
    CASE prog = "mchbar_pl_write" ->
            {"--help", "--restore", "--restore zz", "--restore 0x42",
             "--set", "--set 0 0", "--set 150 170", "--frob"}
      [] prog = "mchbar_read" -> {""}
      [] prog = "mchbar_scan" ->
            {"--help", "--units 0 0", "--units 440 1256", "--pl1 0", ""}
      [] prog = "limits_ui" -> {"4", "EOF"}

\* main has acquired nothing yet
MainStart == [pc |-> "start", held |-> {}, ret |-> 0]

\* open or mmap succeeded
Acquire(st, r, pc) == [st EXCEPT !.held = @ \cup {r}, !.pc = pc]

\* close or munmap
Release(st, rs) == [st EXCEPT !.held = @ \ rs]

\* return ret
Exit(st, ret) == [st EXCEPT !.pc = "exit", !.ret = ret]

\* main of prog is at pc
AtMain(prog, pc) ==
    /\ cin.kind = "main" /\ cin.prog = prog
    /\ cout.fn = "main" /\ cout.res.pc = pc

\* mchbar_pl_write: usage, then open(/dev/mem)
PlWriteOpen ==
    /\ AtMain("mchbar_pl_write", "start")
    /\ cout' = [cout EXCEPT !.res =
           IF cin.argv = "--help" THEN Exit(cout.res, 2)
           ELSE IF ~cin.mem_ok THEN Exit(cout.res, 1)
           ELSE Acquire(cout.res, "mem_fd", "get_base")]
    /\ UNCHANGED <<cin, wf_vars, hw_vars>>

PlWriteGetBase ==
    /\ AtMain("mchbar_pl_write", "get_base")
    /\ cout' = [cout EXCEPT !.res =
           IF ~cin.base_ok THEN Exit(Release(cout.res, {"mem_fd"}), 1)
           ELSE [cout.res EXCEPT !.pc = "mmap"]]
    /\ UNCHANGED <<cin, wf_vars, hw_vars>>

PlWriteMmap ==
    /\ AtMain("mchbar_pl_write", "mmap")
    /\ cout' = [cout EXCEPT !.res =
           IF ~cin.mmap_ok THEN Exit(Release(cout.res, {"mem_fd"}), 1)
           ELSE Acquire(cout.res, "mapping", "mode")]
    /\ UNCHANGED <<cin, wf_vars, hw_vars>>

\* mchbar_pl_write: --restore and --set read their arguments with the
\* window mapped; each refusal is a bare return 2
PlWriteMode ==
    /\ AtMain("mchbar_pl_write", "mode")
    /\ cout' = [cout EXCEPT !.res =
           IF cin.argv \in {"--restore", "--restore zz", "--set", "--set 0 0", "--frob"}
           THEN Exit(cout.res, 2)
           ELSE [cout.res EXCEPT !.pc = "write"]]
    /\ UNCHANGED <<cin, wf_vars, hw_vars>>

\* mchbar_pl_write: wr64, rd64, munmap, close, return 0
PlWriteFinish ==
    /\ AtMain("mchbar_pl_write", "write")
    /\ cout' = [cout EXCEPT !.res =
           Exit(Release(cout.res, {"mapping", "mem_fd"}), 0)]
    /\ UNCHANGED <<cin, wf_vars, hw_vars>>

ReadOpen ==
    /\ AtMain("mchbar_read", "start")
    /\ cout' = [cout EXCEPT !.res =
           IF ~cin.mem_ok THEN Exit(cout.res, 1)
           ELSE Acquire(cout.res, "mem_fd", "get_base")]
    /\ UNCHANGED <<cin, wf_vars, hw_vars>>

ReadGetBase ==
    /\ AtMain("mchbar_read", "get_base")
    /\ cout' = [cout EXCEPT !.res =
           IF ~cin.base_ok THEN Exit(Release(cout.res, {"mem_fd"}), 1)
           ELSE [cout.res EXCEPT !.pc = "mmap"]]
    /\ UNCHANGED <<cin, wf_vars, hw_vars>>

\* mchbar_read: a failed mmap is perror and return 1
ReadMmap ==
    /\ AtMain("mchbar_read", "mmap")
    /\ cout' = [cout EXCEPT !.res =
           IF ~cin.mmap_ok THEN Exit(cout.res, 1)
           ELSE Acquire(cout.res, "mapping", "dump")]
    /\ UNCHANGED <<cin, wf_vars, hw_vars>>

ReadFinish ==
    /\ AtMain("mchbar_read", "dump")
    /\ cout' = [cout EXCEPT !.res =
           Exit(Release(cout.res, {"mapping", "mem_fd"}), 0)]
    /\ UNCHANGED <<cin, wf_vars, hw_vars>>

\* mchbar_scan: the argument loop
ScanArgs ==
    /\ AtMain("mchbar_scan", "start")
    /\ cout' = [cout EXCEPT !.res =
           IF cin.argv = "--help" THEN Exit(cout.res, 2)
           ELSE IF cin.argv \in {"--units 0 0", "--units 440 1256"}
           THEN [cout.res EXCEPT !.pc = "range"]
           ELSE [cout.res EXCEPT !.pc = "open_msr"]]
    /\ UNCHANGED <<cin, wf_vars, hw_vars>>

ScanOpenMsr ==
    /\ AtMain("mchbar_scan", "open_msr")
    /\ cout' = [cout EXCEPT !.res =
           IF ~cin.msr_ok THEN Exit(cout.res, 1)
           ELSE Acquire(cout.res, "msr_fd", "rdmsr")]
    /\ UNCHANGED <<cin, wf_vars, hw_vars>>

\* mchbar_scan: msr_fd is closed after the read of the unit register,
\* whether it failed or not
ScanRdmsr ==
    /\ AtMain("mchbar_scan", "rdmsr")
    /\ cout' = [cout EXCEPT !.res =
           IF ~cin.rdmsr_ok THEN Exit(Release(cout.res, {"msr_fd"}), 1)
           ELSE [Release(cout.res, {"msr_fd"}) EXCEPT !.pc = "range"]]
    /\ UNCHANGED <<cin, wf_vars, hw_vars>>

ScanRange ==
    /\ AtMain("mchbar_scan", "range")
    /\ cout' = [cout EXCEPT !.res =
           IF cin.argv \in {"--units 0 0", "--pl1 0"} THEN Exit(cout.res, 1)
           ELSE [cout.res EXCEPT !.pc = "get_base"]]
    /\ UNCHANGED <<cin, wf_vars, hw_vars>>

ScanGetBase ==
    /\ AtMain("mchbar_scan", "get_base")
    /\ cout' = [cout EXCEPT !.res =
           IF ~cin.base_ok THEN Exit(cout.res, 1)
           ELSE [cout.res EXCEPT !.pc = "open_mem"]]
    /\ UNCHANGED <<cin, wf_vars, hw_vars>>

ScanOpenMem ==
    /\ AtMain("mchbar_scan", "open_mem")
    /\ cout' = [cout EXCEPT !.res =
           IF ~cin.mem_ok THEN Exit(cout.res, 1)
           ELSE Acquire(cout.res, "mem_fd", "mmap")]
    /\ UNCHANGED <<cin, wf_vars, hw_vars>>

ScanMmap ==
    /\ AtMain("mchbar_scan", "mmap")
    /\ cout' = [cout EXCEPT !.res =
           IF ~cin.mmap_ok THEN Exit(Release(cout.res, {"mem_fd"}), 1)
           ELSE Acquire(cout.res, "mapping", "scan")]
    /\ UNCHANGED <<cin, wf_vars, hw_vars>>

ScanFinish ==
    /\ AtMain("mchbar_scan", "scan")
    /\ cout' = [cout EXCEPT !.res =
           Exit(Release(cout.res, {"mapping", "mem_fd"}), 0)]
    /\ UNCHANGED <<cin, wf_vars, hw_vars>>

\* limits_ui: open_mmio, which closes its descriptor when mmap fails
UiOpenMmio ==
    /\ AtMain("limits_ui", "start")
    /\ cout' = [cout EXCEPT !.res =
           IF ~cin.base_ok \/ ~cin.mem_ok \/ ~cin.mmap_ok THEN Exit(cout.res, 1)
           ELSE Acquire(Acquire(cout.res, "mem_fd", "open_msr"), "mapping", "open_msr")]
    /\ UNCHANGED <<cin, wf_vars, hw_vars>>

\* limits_ui: close_mmio releases the mapping and the descriptor
UiOpenMsr ==
    /\ AtMain("limits_ui", "open_msr")
    /\ cout' = [cout EXCEPT !.res =
           IF ~cin.msr_ok THEN Exit(Release(cout.res, {"mapping", "mem_fd"}), 1)
           ELSE Acquire(cout.res, "msr_fd", "rdmsr")]
    /\ UNCHANGED <<cin, wf_vars, hw_vars>>

UiRdmsr ==
    /\ AtMain("limits_ui", "rdmsr")
    /\ cout' = [cout EXCEPT !.res =
           IF ~cin.rdmsr_ok
           THEN Exit(Release(Release(cout.res, {"msr_fd"}), {"mapping", "mem_fd"}), 1)
           ELSE [cout.res EXCEPT !.pc = "menu"]]
    /\ UNCHANGED <<cin, wf_vars, hw_vars>>

\* limits_ui: a menu choice 1, 2, 3 or an unknown one; the loop goes on
UiMenu ==
    /\ AtMain("limits_ui", "menu")
    /\ cout' = cout
    /\ UNCHANGED <<cin, wf_vars, hw_vars>>

\* limits_ui: choice 4 or the end of input, then close and close_mmio
UiFinish ==
    /\ AtMain("limits_ui", "menu")
    /\ cout' = [cout EXCEPT !.res =
           Exit(Release(Release(cout.res, {"msr_fd"}), {"mapping", "mem_fd"}), 0)]
    /\ UNCHANGED <<cin, wf_vars, hw_vars>>

ReleaseInit ==
    /\ \E prog \in Programs : \E argv \in Argv(prog) :
       \E mem_ok \in BOOLEAN, base_ok \in BOOLEAN, mmap_ok \in BOOLEAN,
          msr_ok \in BOOLEAN, rdmsr_ok \in BOOLEAN :
            cin = [kind |-> "main", prog |-> prog, argv |-> argv, mem_ok |-> mem_ok,
                   base_ok |-> base_ok, mmap_ok |-> mmap_ok, msr_ok |-> msr_ok,
                   rdmsr_ok |-> rdmsr_ok]
    /\ cout = [fn |-> "main", res |-> MainStart]
    /\ msr = {} /\ mmio = {}
    /\ powercap = [pl1 |-> microwatts(5500), pl2 |-> microwatts(15700)]
    /\ power_unit = 3
    /\ op = IdleOp
    /\ log = <<>>
    /\ ops = 0

ReleaseNext ==
    \/ PlWriteOpen \/ PlWriteGetBase \/ PlWriteMmap \/ PlWriteMode \/ PlWriteFinish
    \/ ReadOpen \/ ReadGetBase \/ ReadMmap \/ ReadFinish
    \/ ScanArgs \/ ScanOpenMsr \/ ScanRdmsr \/ ScanRange \/ ScanGetBase
    \/ ScanOpenMem \/ ScanMmap \/ ScanFinish
    \/ UiOpenMmio \/ UiOpenMsr \/ UiRdmsr \/ UiMenu \/ UiFinish

SpecRelease == ReleaseInit /\ [][ReleaseNext]_vars

----------------------------------------------------------------------------
(* rd64 and wr64 on the mapped window: two 32-bit accesses each.           *)

\* p32[0] and p32[1] of the register at off
P32(reg) == <<Lo32(reg), Shr32(reg)>>

\* the register whose words are p32[0] and p32[1]
FromP32(p32) == Or(p32[1], Shl32(p32[2]))

\* rd64: lo | (hi << 32)
rd64(reg) ==
    LET lo == P32(reg)[1]
        hi == P32(reg)[2]
    IN Or(lo, Shl32(hi))

\* the first store of wr64 going to p32[1] with the high word
wr64_store_low_to_high(reg, v) == FromP32(<<P32(reg)[1], Lo32(Shr32(v))>>)

\* p32[0] = (uint32_t)(v & 0xffffffffu)
wr64_store_low(reg, v) == FromP32(<<Lo32(And(v, Bits32)), P32(reg)[2]>>)

\* p32[1] = (uint32_t)(v >> 32)
wr64_store_high(reg, v) == FromP32(<<P32(reg)[1], Lo32(Shr32(v))>>)

Wr64Init ==
    /\ \E old \in RawSamples, v \in RawSamples :
          /\ cin = [kind |-> "wr64", old |-> old, v |-> v]
          /\ mmio = old
    /\ cout = [fn |-> "wr64", res |-> [pc |-> "start", val |-> {}]]
    /\ msr = {}
    /\ powercap = [pl1 |-> microwatts(5500), pl2 |-> microwatts(15700)]
    /\ power_unit = 3
    /\ op = IdleOp
    /\ log = <<>>
    /\ ops = 0

Wr64StoreLow ==
    /\ cin.kind = "wr64" /\ cout.fn = "wr64" /\ cout.res.pc = "start"
    /\ mmio' = wr64_store_low(mmio, cin.v)
    /\ cout' = [cout EXCEPT !.res.pc = "low"]
    /\ UNCHANGED <<cin, msr, powercap, power_unit, op, log, ops>>

Wr64StoreHigh ==
    /\ cin.kind = "wr64" /\ cout.fn = "wr64" /\ cout.res.pc = "low"
    /\ mmio' = wr64_store_high(mmio, cin.v)
    /\ cout' = [cout EXCEPT !.res.pc = "high"]
    /\ UNCHANGED <<cin, msr, powercap, power_unit, op, log, ops>>

\* (void)p32[1]
Wr64ReadBack ==
    /\ cin.kind = "wr64" /\ cout.fn = "wr64" /\ cout.res.pc = "high"
    /\ cout' = [cout EXCEPT !.res.pc = "done"]
    /\ UNCHANGED <<cin, wf_vars>>

\* rd64 at the same offset after wr64 returned
Rd64AfterWr64 ==
    /\ cin.kind = "wr64" /\ cout.fn = "wr64" /\ cout.res.pc = "done"
    /\ cout' = [cout EXCEPT !.res = [pc |-> "read", val |-> rd64(mmio)]]
    /\ UNCHANGED <<cin, wf_vars>>

Wr64Next == Wr64StoreLow \/ Wr64StoreHigh \/ Wr64ReadBack \/ Rd64AfterWr64

SpecWr64 == Wr64Init /\ [][Wr64Next]_vars

----------------------------------------------------------------------------
(* Core voltage offset: quantize_uv_mv and apply_core_uv_internal.         *)
(* A voltage is held as a whole number of 1/128 mV, so that the steps of   *)
(* 1/1.024 mV = 125/128 mV are exact.  For the whole millivolts of the     *)
(* spin box the double arithmetic of the code gives the same steps: the    *)
(* product mv * 1.024 lies at least 0.004 from every tie of llround, and   *)
(* |applied - mv| is 0 up to rounding error or at least 1/128.             *)

\* std::llround(n / d) for d > 0: the nearest integer, a tie away from zero
llround_q(n, d) ==
    IF n >= 0 THEN (2 * n + d) \div (2 * d)
    ELSE 0 - ((2 * (0 - n) + d) \div (2 * d))

\* std::fabs
fabs(x) == IF x >= 0 THEN x ELSE 0 - x

\* quantize_uv_mv returning the step count, the division by the scale left out
quantize_uv_mv_no_divide(mv) == llround_q(mv, 125) * 128

\* quantize_uv_mv: llround(mv * kUvMvScale) / kUvMvScale
quantize_uv_mv(mv) == llround_q(mv, 125) * 125

\* QString::arg(v, 0, 'f', 3): v in thousandths, a tie to the even digit
format_f3(v) ==
    LET n == fabs(v) * 1000
        q == n \div 128
        r == n % 128
        m == IF r > 64 \/ (r = 64 /\ q % 2 = 1) THEN q + 1 ELSE q
    IN IF v >= 0 THEN m ELSE 0 - m

\* the detail of the confirmation and the text of the log line: the
\* target alone, or the target with the applied value
UvText(mv, applied, both) ==
    IF both THEN [t |-> "target_applied", target |-> mv, applied |-> format_f3(applied)]
    ELSE [t |-> "target", target |-> mv]

NoText == [t |-> "none"]

\* apply_core_uv_internal with the applied value reported from 0.5 mV on
apply_core_uv_internal_half_mv(mv, confirm, ans, set_ok, do_refresh) ==
    LET applied == quantize_uv_mv(mv * 128)
        both == 2 * fabs(applied - mv * 128) >= 128
        detail == UvText(mv, applied, both)
    IN IF confirm /\ ~ans
       THEN [ret |-> FALSE, dialog |-> detail, sent |-> FALSE, error |-> FALSE,
             logged |-> NoText, refreshed |-> FALSE]
       ELSE IF ~set_ok
       THEN [ret |-> FALSE, dialog |-> IF confirm THEN detail ELSE NoText,
             sent |-> TRUE, error |-> TRUE, logged |-> NoText, refreshed |-> FALSE]
       ELSE [ret |-> TRUE, dialog |-> IF confirm THEN detail ELSE NoText,
             sent |-> TRUE, error |-> FALSE, logged |-> detail, refreshed |-> do_refresh]

\* MainWindow::apply_core_uv_internal for the spin box value mv (whole mV):
\* the detail of the confirmation, set_core_uv(mv), the log line, refresh
apply_core_uv_internal(mv, confirm, ans, set_ok, do_refresh) ==
    LET applied == quantize_uv_mv(mv * 128)
        both == 2000 * fabs(applied - mv * 128) >= 128
        detail == UvText(mv, applied, both)
    IN IF confirm /\ ~ans
       THEN [ret |-> FALSE, dialog |-> detail, sent |-> FALSE, error |-> FALSE,
             logged |-> NoText, refreshed |-> FALSE]
       ELSE IF ~set_ok
       THEN [ret |-> FALSE, dialog |-> IF confirm THEN detail ELSE NoText,
             sent |-> TRUE, error |-> TRUE, logged |-> NoText, refreshed |-> FALSE]
       ELSE [ret |-> TRUE, dialog |-> IF confirm THEN detail ELSE NoText,
             sent |-> TRUE, error |-> FALSE, logged |-> detail, refreshed |-> do_refresh]

\* core_uv_spin_: setRange(-500.0, 500.0), setDecimals(0)
CoreUvRange == (0 - 500)..500

CoreUvInit ==
    /\ \E mv \in CoreUvRange : cin = [kind |-> "uv", mv |-> mv]
    /\ cout = NoResult
    /\ msr = {} /\ mmio = {}
    /\ powercap = [pl1 |-> microwatts(5500), pl2 |-> microwatts(15700)]
    /\ power_unit = 3
    /\ op = IdleOp
    /\ log = <<>>
    /\ ops = 0

\* quantize_uv_mv on the spin box value and on its own result
CodecQuantize ==
    /\ cin.kind = "uv" /\ cout.fn = "none"
    /\ cout' = [fn |-> "quantize_uv_mv",
                once |-> quantize_uv_mv(cin.mv * 128),
                twice |-> quantize_uv_mv(quantize_uv_mv(cin.mv * 128))]
    /\ UNCHANGED <<cin, wf_vars>>

ApplyCoreUv(confirm, ans, set_ok, do_refresh) ==
    /\ cin.kind = "uv" /\ cout.fn = "none"
    /\ cout' = [fn |-> "apply_core_uv_internal", confirm |-> confirm,
                res |-> apply_core_uv_internal(cin.mv, confirm, ans, set_ok, do_refresh)]
    /\ UNCHANGED <<cin, wf_vars>>

CoreUvNext ==
    \/ CodecQuantize
    \/ \E confirm \in BOOLEAN, ans \in BOOLEAN, set_ok \in BOOLEAN, do_refresh \in BOOLEAN :
          ApplyCoreUv(confirm, ans, set_ok, do_refresh)

SpecCoreUv == CoreUvInit /\ [][CoreUvNext]_vars

----------------------------------------------------------------------------
(* The fixed 1/8 W path of mchbar_pl_write --set next to the path of       *)
(* limits_ui that takes the unit from MSR_RAPL_POWER_UNIT.                 *)

\* mchbar_pl_write --set with the watts scaled by 16
plw_set_sixteenths(orig, pl1w, pl2w) ==
    IF pl1w <= 0 \/ pl2w <= 0 \/ pl1w > 500 \/ pl2w > 500
    THEN [done |-> TRUE, ok |-> FALSE, target |-> orig]
    ELSE [done |-> TRUE, ok |-> TRUE,
          target |-> plw_set_target(orig, to_uint16(pl1w * 16), to_uint16(pl2w * 16))]

\* mchbar_pl_write.c main, --set: atoi watts, "Refusing weird values.",
\* units = watts * 8, the target built from orig
plw_set(orig, pl1w, pl2w) ==
    IF pl1w <= 0 \/ pl2w <= 0 \/ pl1w > 500 \/ pl2w > 500
    THEN [done |-> TRUE, ok |-> FALSE, target |-> orig]
    ELSE [done |-> TRUE, ok |-> TRUE,
          target |-> plw_set_target(orig, to_uint16(pl1w * 8), to_uint16(pl2w * 8))]

\* limits_ui.c main and set_limits: unit_watts from the power unit field,
\* the conversion, the range check and set_pl_units on the value read
cli_set(cur, pu, pl1_w, pl2_w) ==
    LET u == set_limits_units(cli_unit_watts(pu), pl1_w, pl2_w)
    IN IF cli_watts_refused(pl1_w, pl2_w) \/ ~u.ok
       THEN [done |-> TRUE, ok |-> FALSE, target |-> cur]
       ELSE [done |-> TRUE, ok |-> TRUE,
             target |-> set_pl_units(cur, u.pl1_units, u.pl2_units)]

NoPath == [done |-> FALSE, ok |-> FALSE, target |-> {}]

\* PL2 watts tried with each PL1 of 1..500
Pl2Watts == {1, 157, 500}

PathsInit ==
    /\ \E raw \in RawSamples, pu \in PowerUnits, w1 \in 1..500, w2 \in Pl2Watts :
          cin = [kind |-> "paths", raw |-> raw, pu |-> pu, pl1w |-> w1, pl2w |-> w2]
    /\ cout = [fn |-> "paths", fixed |-> NoPath, dyn |-> NoPath]
    /\ msr = {} /\ mmio = {}
    /\ powercap = [pl1 |-> microwatts(5500), pl2 |-> microwatts(15700)]
    /\ power_unit = 3
    /\ op = IdleOp
    /\ log = <<>>
    /\ ops = 0

PathFixed ==
    /\ cin.kind = "paths" /\ cout.fn = "paths" /\ ~cout.fixed.done
    /\ cout' = [cout EXCEPT !.fixed = plw_set(cin.raw, cin.pl1w, cin.pl2w)]
    /\ UNCHANGED <<cin, wf_vars>>

PathDynamic ==
    /\ cin.kind = "paths" /\ cout.fn = "paths" /\ ~cout.dyn.done
    /\ cout' = [cout EXCEPT !.dyn = cli_set(cin.raw, cin.pu, cin.pl1w * 100, cin.pl2w * 100)]
    /\ UNCHANGED <<cin, wf_vars>>

PathsNext == PathFixed \/ PathDynamic

SpecPaths == PathsInit /\ [][PathsNext]_vars

----------------------------------------------------------------------------
(* write_powercap_uw, one write_text_file at a time.                       *)

\* how one write_text_file can end: written, open failed, write failed
FileOutcomes == {"ok", "open_fail", "write_fail"}

\* write_text_file on an endpoint: the return value and the endpoints after
write_text_file(cap, endpoint, text, outcome) ==
    IF outcome # "ok" THEN [ret |-> -1, powercap |-> cap]
    ELSE [ret |-> 0, powercap |-> [cap EXCEPT ![endpoint] = text]]

PowercapInit ==
    /\ \E w1 \in WattSamples, w2 \in WattSamples,
          o1 \in FileOutcomes, o2 \in FileOutcomes :
            cin = [kind |-> "powercap", pl1_uw |-> microwatts(w1),
                   pl2_uw |-> microwatts(w2), o1 |-> o1, o2 |-> o2]
    /\ powercap = [pl1 |-> microwatts(5500), pl2 |-> microwatts(15700)]
    /\ cout = [fn |-> "write_powercap_uw", pc |-> "pl1", ret |-> 0, wrote |-> <<>>]
    /\ msr = {} /\ mmio = {}
    /\ power_unit = 3
    /\ op = IdleOp
    /\ log = <<>>
    /\ ops = 0

\* the write of constraint_0 going on to constraint_1 whatever it returned
PowercapWritePl1_goes_on ==
    /\ cin.kind = "powercap" /\ cout.fn = "write_powercap_uw" /\ cout.pc = "pl1"
    /\ LET w == write_text_file(powercap, "pl1", cin.pl1_uw, cin.o1)
       IN /\ powercap' = w.powercap
          /\ cout' = [cout EXCEPT !.wrote = Append(@, "pl1"), !.pc = "pl2"]
    /\ UNCHANGED <<cin, msr, mmio, power_unit, op, log, ops>>

\* write_powercap_uw: write_text_file(pl1_path, buf), return -1 if it failed
PowercapWritePl1 ==
    /\ cin.kind = "powercap" /\ cout.fn = "write_powercap_uw" /\ cout.pc = "pl1"
    /\ LET w == write_text_file(powercap, "pl1", cin.pl1_uw, cin.o1)
       IN /\ powercap' = w.powercap
          /\ cout' = IF w.ret # 0
                     THEN [cout EXCEPT !.wrote = Append(@, "pl1"), !.pc = "ret", !.ret = -1]
                     ELSE [cout EXCEPT !.wrote = Append(@, "pl1"), !.pc = "pl2"]
    /\ UNCHANGED <<cin, msr, mmio, power_unit, op, log, ops>>

\* write_powercap_uw: write_text_file(pl2_path, buf), return -1 or 0
PowercapWritePl2 ==
    /\ cin.kind = "powercap" /\ cout.fn = "write_powercap_uw" /\ cout.pc = "pl2"
    /\ LET w == write_text_file(powercap, "pl2", cin.pl2_uw, cin.o2)
       IN /\ powercap' = w.powercap
          /\ cout' = [cout EXCEPT !.wrote = Append(@, "pl2"), !.pc = "ret",
                                  !.ret = IF w.ret # 0 THEN -1 ELSE 0]
    /\ UNCHANGED <<cin, msr, mmio, power_unit, op, log, ops>>

PowercapNext == PowercapWritePl1 \/ PowercapWritePl2

SpecPowercap == PowercapInit /\ [][PowercapNext]_vars

----------------------------------------------------------------------------
(* Startup guard of the Qt window, over several runs of the application.   *)
(* cin is what stays on disk between runs (startup_guard.json and the      *)
(* saved preferences), cout is the running MainWindow.                     *)

MaxRuns == 2

\* how write_startup_guard can end: committed, open failed, commit failed
GuardWriteOutcomes == {"ok", "open_fail", "commit_fail"}

\* read_startup_guard: true exactly when the guard file exists
read_startup_guard(disk) == disk.guard

\* write_startup_guard on the disk: the file exists only after a commit
write_startup_guard(disk, outcome) ==
    IF outcome = "ok" THEN [disk EXCEPT !.guard = TRUE, !.owner = "running"]
    ELSE disk

\* clear_startup_guard on the disk: QFile::remove(guard_path())
clear_startup_guard(disk) == [disk EXCEPT !.guard = FALSE, !.owner = "none"]

\* save_preferences: the "enabled" key takes the state of the checkbox
save_preferences(disk, checked) == [disk EXCEPT !.enabled = checked]

NoWindow ==
    [fn |-> "main_window", pc |-> "off", backend_ready |-> FALSE,
     startup_enabled |-> FALSE, startup_guard_set |-> FALSE,
     detected |-> FALSE, applied |-> "none", apply_result |-> "none",
     events |-> <<>>, ended |-> "none"]

StartupInit ==
    /\ \E en \in BOOLEAN, uf \in BOOLEAN, fs \in BOOLEAN, ps \in BOOLEAN,
          any \in BOOLEAN :
            cin = [kind |-> "startup", guard |-> FALSE, owner |-> "none",
                   enabled |-> en, use_fallback |-> uf, fallback_set |-> fs,
                   profile_set |-> ps, any_checked |-> any, runs |-> 0]
    /\ cout = NoWindow
    /\ msr = {} /\ mmio = {}
    /\ powercap = [pl1 |-> microwatts(5500), pl2 |-> microwatts(15700)]
    /\ power_unit = 3
    /\ op = IdleOp
    /\ log = <<>>
    /\ ops = 0

\* MainWindow constructor: load_preferences, initialize_backend
MainWindowStart(helper_ok) ==
    /\ cin.kind = "startup" /\ cout.pc = "off" /\ cin.runs < MaxRuns
    /\ cin' = [cin EXCEPT !.runs = @ + 1]
    /\ cout' = [NoWindow EXCEPT !.pc = "startup", !.backend_ready = helper_ok,
                                !.startup_enabled = cin.enabled]
    /\ UNCHANGED <<msr, mmio, powercap, power_unit, op, log, ops>>

\* handle_startup_apply: backend not ready, or auto-apply not checked
StartupSkipped ==
    /\ cin.kind = "startup" /\ cout.pc = "startup"
    /\ ~cout.backend_ready \/ ~cout.startup_enabled
    /\ cout' = [cout EXCEPT !.pc = "handled"]
    /\ UNCHANGED <<cin, msr, mmio, powercap, power_unit, op, log, ops>>

\* the guard branch leaving auto-apply checked and saved as it was
StartupGuardDetected_stays_enabled ==
    /\ cin.kind = "startup" /\ cout.pc = "startup"
    /\ cout.backend_ready /\ cout.startup_enabled
    /\ read_startup_guard(cin)
    /\ cout' = [cout EXCEPT !.detected = TRUE, !.pc = "fallback"]
    /\ cin' = cin
    /\ UNCHANGED <<msr, mmio, powercap, power_unit, op, log, ops>>

\* handle_startup_apply: a guard file exists; auto-apply is unchecked and
\* the preferences are saved
StartupGuardDetected ==
    /\ cin.kind = "startup" /\ cout.pc = "startup"
    /\ cout.backend_ready /\ cout.startup_enabled
    /\ read_startup_guard(cin)
    /\ cout' = [cout EXCEPT !.startup_enabled = FALSE, !.detected = TRUE,
                            !.pc = "fallback"]
    /\ cin' = save_preferences(cin, FALSE)
    /\ UNCHANGED <<msr, mmio, powercap, power_unit, op, log, ops>>

\* handle_startup_apply, guard branch: the fallback profile is loaded into
\* the UI, or the guard is cleared and the function returns
StartupFallback(load_ok) ==
    /\ cin.kind = "startup" /\ cout.pc = "fallback"
    /\ IF cin.use_fallback /\ cin.fallback_set /\ load_ok
       THEN /\ cout' = [cout EXCEPT !.applied = "fallback", !.pc = "apply"]
            /\ cin' = cin
       ELSE /\ cout' = [cout EXCEPT !.startup_guard_set = FALSE, !.pc = "handled"]
            /\ cin' = clear_startup_guard(cin)
    /\ UNCHANGED <<msr, mmio, powercap, power_unit, op, log, ops>>

\* handle_startup_apply, no guard: the startup profile is loaded into the UI
\* and write_startup_guard is called; its failure is only logged
StartupPrimary(load_ok, outcome) ==
    /\ cin.kind = "startup" /\ cout.pc = "startup"
    /\ cout.backend_ready /\ cout.startup_enabled
    /\ ~read_startup_guard(cin)
    /\ IF cin.profile_set /\ load_ok
       THEN /\ cin' = write_startup_guard(cin, outcome)
            /\ cout' = [cout EXCEPT
                  !.applied = "primary", !.pc = "apply",
                  !.startup_guard_set = (outcome = "ok"),
                  !.events = IF outcome = "ok" THEN Append(@, "guard_written") ELSE @]
       ELSE /\ cin' = cin
            /\ cout' = [cout EXCEPT !.pc = "handled"]
    /\ UNCHANGED <<msr, mmio, powercap, power_unit, op, log, ops>>

\* apply_startup_actions: the first checked startup action starts writing
StartupRegisterWrite ==
    /\ cin.kind = "startup" /\ cout.pc = "apply" /\ cin.any_checked
    /\ cout' = [cout EXCEPT !.events = Append(@, "write"), !.pc = "applying"]
    /\ UNCHANGED <<cin, msr, mmio, powercap, power_unit, op, log, ops>>

\* apply_startup_actions returns; handle_startup_apply clears the guard on
\* failure and at the end of the guard branch
StartupApplyReturn(ok) ==
    /\ cin.kind = "startup"
    /\ cout.pc = "applying" \/ (cout.pc = "apply" /\ ~cin.any_checked /\ ok)
    /\ IF ~ok \/ cout.detected
       THEN /\ cin' = clear_startup_guard(cin)
            /\ cout' = [cout EXCEPT !.startup_guard_set = FALSE, !.pc = "handled",
                                    !.apply_result = IF ok THEN "ok" ELSE "fail"]
       ELSE /\ cin' = cin
            /\ cout' = [cout EXCEPT !.pc = "handled", !.apply_result = "ok"]
    /\ UNCHANGED <<msr, mmio, powercap, power_unit, op, log, ops>>

\* the constructor returns and the event loop runs
EnterEventLoop ==
    /\ cin.kind = "startup" /\ cout.pc = "handled"
    /\ cout' = [cout EXCEPT !.pc = "running"]
    /\ UNCHANGED <<cin, msr, mmio, powercap, power_unit, op, log, ops>>

\* the user toggles "Apply on startup": stateChanged -> save_preferences
ToggleStartupEnabled ==
    /\ cin.kind = "startup" /\ cout.pc = "running"
    /\ cout' = [cout EXCEPT !.startup_enabled = ~@]
    /\ cin' = save_preferences(cin, ~cout.startup_enabled)
    /\ UNCHANGED <<msr, mmio, powercap, power_unit, op, log, ops>>

\* aboutToQuit -> on_about_to_quit
on_about_to_quit ==
    /\ cin.kind = "startup" /\ cout.pc = "running"
    /\ cin' = IF cout.startup_guard_set THEN clear_startup_guard(cin) ELSE cin
    /\ cout' = [cout EXCEPT !.startup_guard_set = FALSE, !.pc = "off",
                            !.ended = "quit"]
    /\ UNCHANGED <<msr, mmio, powercap, power_unit, op, log, ops>>

\* the process ends without aboutToQuit (crash, kill, power loss)
ProcessDies ==
    /\ cin.kind = "startup" /\ cout.pc # "off"
    /\ cin' = IF cin.guard THEN [cin EXCEPT !.owner = "crashed"] ELSE cin
    /\ cout' = [cout EXCEPT !.pc = "off", !.ended = "crash"]
    /\ UNCHANGED <<msr, mmio, powercap, power_unit, op, log, ops>>

StartupNext ==
    \/ \E h \in BOOLEAN : MainWindowStart(h)
    \/ StartupSkipped
    \/ StartupGuardDetected
    \/ \E l \in BOOLEAN : StartupFallback(l)
    \/ \E l \in BOOLEAN, o \in GuardWriteOutcomes : StartupPrimary(l, o)
    \/ StartupRegisterWrite
    \/ \E ok \in BOOLEAN : StartupApplyReturn(ok)
    \/ EnterEventLoop
    \/ ToggleStartupEnabled
    \/ on_about_to_quit
    \/ ProcessDies

SpecStartup == StartupInit /\ [][StartupNext]_vars

----------------------------------------------------------------------------
(* MSR -> MMIO syncs in a row, with no other operation in between.         *)

\* the MMIO value after each completed MSR -> MMIO sync so far
NoSyncs == [fn |-> "sync", after |-> <<>>]

SyncTwiceInit ==
    /\ msr \in RawSamples
    /\ mmio \in RawSamples
    /\ powercap = [pl1 |-> microwatts(5500), pl2 |-> microwatts(15700)]
    /\ power_unit \in WfPowerUnits
    /\ op = IdleOp
    /\ log = <<>>
    /\ ops = 0
    /\ cin = [kind |-> "sync", msr |-> msr, mmio |-> mmio]
    /\ cout = NoSyncs

\* the sync handler has returned; a sync that wrote MMIO is noted
SyncReturn ==
    /\ op.pc = "done"
    /\ op' = IdleOp
    /\ log' = <<>>
    /\ cout' = IF \E i \in DOMAIN log : log[i].ev = "write" /\ log[i].reg = "mmio"
               THEN [cout EXCEPT !.after = Append(@, mmio)]
               ELSE cout
    /\ UNCHANGED <<msr, mmio, powercap, power_unit, ops, cin>>

SyncTwiceNext ==
    \/ SyncReturn
    \/ \E cancel \in BOOLEAN, rd_ok \in BOOLEAN : sync_limits(cancel, 1, rd_ok)
    \/ \E ans \in BOOLEAN, wr_ok \in BOOLEAN : CliSyncConfirm(ans, wr_ok)
    \/ \E resp \in {"ok", "fail"} : GuiSync("mmio", resp)
    \/ \E ans \in BOOLEAN, wr_ok \in BOOLEAN : GuiSyncStep(ans, wr_ok)

SpecSyncTwice == SyncTwiceInit /\ [][SyncTwiceNext]_vars

----------------------------------------------------------------------------
(* Claims about apply, sync and mchbar_pl_write.                           *)

ApplyFns == {"set_limits", "apply_limits", "apply_startup_actions"}

IsApply == op.fn \in ApplyFns

Registers == {"msr", "mmio"}

IsWriteAttempt(e) == e.ev \in {"write", "write_fail"}

\* positions in the log of the writes issued, to any surface and to the
\* two registers
WriteAttempts == {i \in DOMAIN log : IsWriteAttempt(log[i])}

RegWriteAttempts == {i \in WriteAttempts : log[i].reg \in Registers}

ReadsBefore(i, r) == {j \in 1..(i - 1) : log[j].ev = "read" /\ log[j].reg = r}

\* the value most recently read from register r before position i
LastReadBefore(i, r) ==
    log[CHOOSE j \in ReadsBefore(i, r) : \A k \in ReadsBefore(i, r) : k <= j].val

Failed == op.pc = "done" /\ op.result \in {"-1", "false", "2"}

Opaque(v) == And(v, Not64(PlFieldMask))

\* the encoding as the specification words it: opaque bits of raw, PL1 in
\* bits 14:0, PL2 in bits 46:32
EncodeRef(raw, a, b) ==
    Or(Opaque(raw), Or(ToBits(a % 32768), {i + 32 : i \in ToBits(b % 32768)}))

HasEvent(e, r) == \E i \in DOMAIN log : log[i].ev = e /\ log[i].reg = r

\* round(w / unit_watts) of the requested PL1 or PL2 is 0 or above 32767
RequestOutOfRange ==
    /\ op.unit_watts > 0
    /\ \/ UnitsOutOfRange(llround_div(op.pl1_w, op.unit_watts))
       \/ UnitsOutOfRange(llround_div(op.pl2_w, op.unit_watts))

\* C4: an apply operation whose PL1 or PL2 converts to a unit value out of
\* range ends in failure without any MSR, MMIO or powercap write.
C4_RejectTouchesNothing ==
    (IsApply /\ op.converted /\ RequestOutOfRange) => (Failed /\ WriteAttempts = {})

\* C5: in an apply operation every value written to a register is the
\* encoding of the requested units into the value last read from that same
\* register, whatever the other register holds.
C5_PerTargetRmw ==
    IsApply =>
        \A i \in RegWriteAttempts :
            /\ ReadsBefore(i, log[i].reg) # {}
            /\ log[i].val = EncodeRef(LastReadBefore(i, log[i].reg),
                                      op.pl1_units, op.pl2_units)

\* both registers written in one apply, their opaque bits different, PL1
\* and PL2 different
C5_Witness ==
    /\ IsApply
    /\ op.target = "both"
    /\ op.pl1_units # op.pl2_units
    /\ Opaque(op.st_msr) # Opaque(op.st_mmio)
    /\ \E i, j \in RegWriteAttempts :
          /\ log[i].ev = "write" /\ log[i].reg = "msr"
          /\ log[j].ev = "write" /\ log[j].reg = "mmio"
          /\ Opaque(log[i].val) # Opaque(log[j].val)

\* C6: every register write of every operation (apply, sync, mchbar_pl_write
\* --set and --restore) keeps the bits outside the two unit fields as they
\* were in the value last read from the register written.
C6_OpaqueAllWrites ==
    \A i \in RegWriteAttempts :
        ReadsBefore(i, log[i].reg) # {} =>
            Opaque(log[i].val) = Opaque(LastReadBefore(i, log[i].reg))

FieldWriterFns == ApplyFns \cup {"set"}

\* C6, amended: every register write of an apply operation or of
\* mchbar_pl_write --set keeps the bits outside the two unit fields as
\* they were in the value last read from the register written.
C6_OpaqueFieldWrites ==
    op.fn \in FieldWriterFns =>
        \A i \in RegWriteAttempts :
            /\ ReadsBefore(i, log[i].reg) # {}
            /\ Opaque(log[i].val) = Opaque(LastReadBefore(i, log[i].reg))

\* mchbar_pl_write --set has changed a register whose opaque bits are set
C6_Witness ==
    /\ op.prog = "plw" /\ op.fn = "set"
    /\ \E i \in RegWriteAttempts :
          /\ log[i].ev = "write"
          /\ {15, 47} \subseteq Opaque(log[i].val)
          /\ log[i].val # LastReadBefore(i, "mmio")

\* C7: an apply to both registers whose MSR write failed still attempts
\* the MMIO write before it ends.
C7_BothBestEffort ==
    (IsApply /\ op.target = "both" /\ op.pc = "done" /\ HasEvent("write_fail", "msr"))
        => \E j \in RegWriteAttempts : log[j].reg = "mmio"

SelectedRegisters == IF op.target = "both" THEN Registers ELSE {op.target}

PreviewedBefore(i, r, v) ==
    \E j \in 1..(i - 1) : log[j].ev = "preview" /\ log[j].reg = r /\ log[j].val = v

\* C8: in confirmation mode every selected target's new value is shown
\* before any register write of the operation, and each value written is
\* the value shown for its target.
C8_PreviewBeforeAnyWrite ==
    (IsApply /\ op.confirm) =>
        \A i \in RegWriteAttempts :
            /\ \A r \in SelectedRegisters :
                  \E j \in 1..(i - 1) : log[j].ev = "preview" /\ log[j].reg = r
            /\ PreviewedBefore(i, log[i].reg, log[i].val)

\* C8, amended: in confirmation mode each target's new value is shown
\* before that target's own write and is the value written; with both
\* targets the MMIO value is shown only after the MSR prompt was answered
\* and the MSR write, if accepted, performed.
C8_PreviewBeforeOwnWrite ==
    (IsApply /\ op.confirm) =>
        /\ \A i \in RegWriteAttempts : PreviewedBefore(i, log[i].reg, log[i].val)
        /\ op.target = "both" =>
              \A j \in DOMAIN log :
                  (log[j].ev = "preview" /\ log[j].reg = "mmio") =>
                      \E k \in 1..(j - 1) : /\ log[k].reg = "msr"
                                            /\ log[k].ev \in {"write", "declined"}

\* a confirmed apply to both registers: MSR written, then MMIO previewed
\* and written
C8_Witness ==
    /\ IsApply /\ op.confirm /\ op.target = "both"
    /\ \E i, j, k \in DOMAIN log :
          /\ i < j /\ j < k
          /\ log[i].ev = "write" /\ log[i].reg = "msr"
          /\ log[j].ev = "preview" /\ log[j].reg = "mmio"
          /\ log[k].ev = "write" /\ log[k].reg = "mmio" /\ log[k].val = log[j].val

\* what apply_limits_internal shows and then writes for register r when it
\* is run with confirm on the state, units and target of the current run
ConfirmedRun(r) ==
    LET oc == [op EXCEPT !.confirm = TRUE]
    IN IF r = "msr" THEN GuiMsrBlock(oc, <<>>) ELSE GuiMmioBlock(oc, <<>>)

\* C9: the startup apply (confirm off) raises no prompt and writes to each
\* register the value that the confirmed apply shows and writes for the same
\* read state, watts and target.
C9_ConfirmIndependent ==
    op.fn = "apply_startup_actions" =>
        /\ \A i \in DOMAIN log : log[i].ev \notin {"prompt", "preview", "declined"}
        /\ \A i \in RegWriteAttempts :
              /\ log[i].val = ConfirmedRun(log[i].reg).log[1].val
              /\ log[i].val = ConfirmedRun(log[i].reg).op.next

\* a startup apply that wrote both registers, PL1 and PL2 different
C9_Witness ==
    /\ op.fn = "apply_startup_actions" /\ op.target = "both"
    /\ op.pc = "done" /\ op.result = "true"
    /\ op.pl1_units # op.pl2_units
    /\ HasEvent("write", "msr") /\ HasEvent("write", "mmio")

RegisterValue(r) == IF r = "msr" THEN msr ELSE mmio

\* C10: after a failed powercap write the apply issues no register write,
\* the registers keep what the operation wrote, the failure is reported
\* and the operation ends in failure.
C10_PowercapNotCompensated ==
    IsApply =>
        \A i \in DOMAIN log :
            (log[i].ev = "write_fail" /\ log[i].reg = "powercap") =>
                /\ \A j \in RegWriteAttempts : j < i
                /\ \A j \in RegWriteAttempts :
                      log[j].ev = "write" => RegisterValue(log[j].reg) = log[j].val
                /\ \E j \in (i + 1)..Len(log) :
                      log[j].ev = "error" /\ log[j].reg = "powercap"
                /\ Failed

\* both registers written, then the second powercap endpoint failed
C10_Witness ==
    /\ IsApply /\ op.target = "both"
    /\ HasEvent("write", "msr") /\ HasEvent("write", "mmio")
    /\ HasEvent("write_fail", "powercap")
    /\ powercap.pl1 = microwatts(op.pl1_w) /\ powercap.pl2 # microwatts(op.pl2_w)

SyncFns == {"sync_limits", "sync_msr_to_mmio", "sync_mmio_to_msr"}

OtherRegister(r) == IF r = "msr" THEN "mmio" ELSE "msr"

\* C11: after a confirmed, successful sync the destination register holds
\* all 64 bits of the source value read in that operation, and the source
\* register was not written.
C11_SyncVerbatim ==
    op.fn \in SyncFns =>
        \A i \in RegWriteAttempts :
            LET dst == log[i].reg
                src == OtherRegister(log[i].reg)
            IN /\ ReadsBefore(i, src) # {}
               /\ log[i].val = LastReadBefore(i, src)
               /\ \A j \in RegWriteAttempts : log[j].reg = dst
               /\ RegisterValue(src) = LastReadBefore(i, src)
               /\ log[i].ev = "write" => RegisterValue(dst) = LastReadBefore(i, src)

\* a GUI MSR -> MMIO sync that changed MMIO's enable and time-window bits
C11_Witness ==
    /\ op.fn = "sync_msr_to_mmio" /\ op.pc = "done"
    /\ HasEvent("write", "mmio")
    /\ Opaque(op.st_msr) # Opaque(op.st_mmio)
    /\ mmio = op.st_msr /\ msr = op.st_msr

\* C12: MSR -> MMIO syncs performed in a row, each confirmed and
\* successful, all leave MMIO with the raw value the first one left.
C12_SyncIdempotent ==
    cout.fn = "sync" =>
        \A i, j \in DOMAIN cout.after : cout.after[i] = cout.after[j]

\* two syncs done on registers that differed at the start
C12_Witness ==
    /\ cout.fn = "sync"
    /\ Len(cout.after) = 2
    /\ cin.msr # cin.mmio
    /\ cout.after[2] = cin.msr

GuiUnitFns == {"apply_limits", "apply_startup_actions", "refresh"}

\* the unit_watts the GUI obtained from read_state is not positive
NonPositiveUnitWattsRead ==
    \E i \in DOMAIN log :
        log[i].ev = "read" /\ log[i].reg = "unit_watts" /\ log[i].val <= 0

\* C13: with a power unit field that is <= 0 (the low 4 bits of MSR 0x606
\* are 0) an apply performs no conversion and no write.
C13_ZeroPowerUnitFails ==
    (IsApply /\ power_unit <= 0) => (~op.converted /\ WriteAttempts = {})

\* C13, amended: when the unit_watts obtained in the Reading step is <= 0,
\* GUI refresh and apply_limits_internal report the invalid unit and end
\* without conversion, report or write; a power unit field of 0 is no
\* failure: the CLI uses unit_watts = 1 / 2^power_unit, 1 W per unit then.
C13_NonPositiveUnitWattsFails ==
    /\ (op.fn \in GuiUnitFns /\ NonPositiveUnitWattsRead) =>
          /\ op.pc = "done"
          /\ HasEvent("error", "unit")
          /\ ~op.converted
          /\ WriteAttempts = {}
          /\ \A i \in DOMAIN log : log[i].ev # "report"
          /\ IsApply => Failed
    /\ (op.fn = "set_limits" /\ op.converted) =>
          (op.unit_watts = Pow2(power_unit) /\ op.unit_watts > 0)

\* the startup apply stopped by a read state whose UNIT_WATTS is 0
C13_Witness ==
    /\ op.fn = "apply_startup_actions"
    /\ NonPositiveUnitWattsRead
    /\ op.pc = "done" /\ op.result = "false"

InspectFns == {"show_status", "refresh"}

\* C14: in an inspection (show_status, refresh) a failed read of one
\* register does not keep the other register, once read, from being
\* reported.
C14_InspectionReportsOther ==
    op.fn \in InspectFns =>
        \A r \in Registers :
            (HasEvent("read_fail", r) /\ HasEvent("read", OtherRegister(r)))
                => HasEvent("report", OtherRegister(r))

\* the text of line k of a helper output is a number
LineIsNumber(out, k) == k \in DOMAIN out /\ out[k].t = "num"

IncompleteResponse(h) == ~h.run \/ \E k \in RequiredKeys : ~LineIsNumber(h.out, k)

GuiReadFns == {"apply_limits", "apply_startup_actions", "refresh",
               "sync_msr_to_mmio", "sync_mmio_to_msr"}

\* C15: a read-state response in which POWER_UNIT, UNIT_WATTS, MSR or MMIO
\* is absent or no number makes read_state fail, and the apply, sync or
\* refresh that got it issues no MSR, MMIO or powercap write.
C15_MissingKeysFail ==
    op.fn \in GuiReadFns =>
        /\ \A i \in DOMAIN log :
              (log[i].ev = "response" /\ IncompleteResponse(log[i].val)) =>
                  /\ HasEvent("read_fail", "state")
                  /\ HasEvent("error", "state")
                  /\ op.pc = "done"
                  /\ IsApply => Failed
        /\ HasEvent("read_fail", "state") => WriteAttempts = {}

\* a sync MSR -> MMIO stopped by a response without its MSR line
C15_Witness ==
    /\ op.fn = "sync_msr_to_mmio" /\ op.pc = "done"
    /\ \E i \in DOMAIN log :
          /\ log[i].ev = "response"
          /\ log[i].val.run
          /\ "MSR" \notin DOMAIN log[i].val.out
          /\ LineIsNumber(log[i].val.out, "MMIO")
    /\ WriteAttempts = {}

IsParsed == cout.fn = "parse_state"

\* C16: a response holding a line with an unknown key makes read_state
\* fail, and no line parse_state looks up is replaced by a default when it
\* is absent.
C16_UnknownKeysFail ==
    IsParsed =>
        /\ (\E k \in UnknownKeys : k \in DOMAIN cin.out) => ~cout.res.ok
        /\ cout.res.ok =>
              \A k \in RequiredKeys \cup OptionalKeys : k \in DOMAIN cin.out

\* C17: with the host bridge found, mchbar_get_base succeeds exactly when
\* all 8 bytes at config +0x48 were read, bit 0 of the value is set and the
\* value with its low 12 bits cleared is not 0, and then returns that
\* value; on every failure the caller's base is left as it was.
C17_BaseResolution ==
    cout.fn = "mchbar_get_base" =>
        LET v == cin.cfg.val
            full_read == cin.sys.entries # <<>> /\ cin.cfg.open_ok /\ cin.cfg.seek_ok
                         /\ cin.cfg.n = 8
            page == {i \in v : i >= 12}
        IN /\ (cout.res.ret = 0) <=> (full_read /\ 0 \in v /\ page # {})
           /\ cout.res.ret = 0 => cout.res.out_base = page
           /\ cout.res.ret # 0 => cout.res.out_base = OutBaseBefore

\* config +0x48 = 0x00000000FEDC0001 resolved to 0xFEDC0000
C17_Witness ==
    /\ cout.fn = "mchbar_get_base"
    /\ cin.cfg.val = U64(0, 0, 65244, 1)
    /\ cout.res.ret = 0
    /\ cout.res.out_base = U64(0, 0, 65244, 0)

\* vendor 0x8086 and class & 0xFFFF00 == 0x060000, both files readable
IsHostBridge(d) ==
    /\ d.vendor = 32902
    /\ d.class >= 0
    /\ (d.class \div 256) % 65536 = 1536

\* positions of the enumerated devices that are Intel host bridges
BridgePositions(entries) == {i \in DOMAIN entries : IsHostBridge(entries[i])}

\* C18: the locator returns 0000:00:00.0 whenever that device is an Intel
\* host bridge, otherwise the first enumerated device that is one; it
\* fails with not-found exactly when no enumerated device is one; a device
\* it returns is always an Intel host bridge.
C18_HostBridgeLocator ==
    cout.fn = "mchbar_find_host_bridge_config" =>
        LET e == cin.sys.entries
            bp == BridgePositions(e)
            primary_ok == \E i \in bp : e[i].name = "0000:00:00.0"
            first == CHOOSE i \in bp : \A j \in bp : i <= j
        IN /\ primary_ok => (cout.res.ret = 0 /\ cout.res.device = "0000:00:00.0")
           /\ (~primary_ok /\ cin.sys.dir_ok /\ bp # {}) =>
                 (cout.res.ret = 0 /\ cout.res.device = e[first].name)
           /\ cin.sys.dir_ok =>
                 ((cout.res.ret # 0 /\ cout.res.err = "Intel host bridge not found")
                     <=> bp = {})
           /\ cout.res.ret = 0 =>
                 \E i \in bp : e[i].name = cout.res.device

\* the primary device is no host bridge; of two later bridges the first
\* enumerated one is returned
C18_Witness ==
    /\ cout.fn = "mchbar_find_host_bridge_config"
    /\ Len(cin.sys.entries) = 3
    /\ cin.sys.entries[1].name = "0000:00:00.0"
    /\ ~IsHostBridge(cin.sys.entries[1])
    /\ IsHostBridge(cin.sys.entries[2]) /\ IsHostBridge(cin.sys.entries[3])
    /\ cout.res.ret = 0
    /\ cout.res.device = cin.sys.entries[2].name

\* main has returned
Exited == cout.fn = "main" /\ cout.res.pc = "exit"

\* C19: when limits_ui, mchbar_pl_write, mchbar_read or mchbar_scan
\* returns, every descriptor it opened is closed and the mapping it
\* established is unmapped.
C19_ReleasedAtExit == Exited => cout.res.held = {}

\* the low word of a and the high word of b
Words(a, b) == {i \in a : i < 32} \cup {i \in b : i >= 32}

\* C20: wr64 stores the low word before the high word: between the two
\* stores the register holds the new low word and the old high word, and
\* after both stores it holds the value written, which rd64 returns.
C20_Wr64Ordering ==
    cout.fn = "wr64" =>
        /\ cout.res.pc = "start" => mmio = cin.old
        /\ cout.res.pc = "low" => mmio = Words(cin.v, cin.old)
        /\ cout.res.pc \in {"high", "done", "read"} => mmio = cin.v
        /\ cout.res.pc = "read" => cout.res.val = cin.v

\* old and new value differ in both words and rd64 has returned the new one
C20_Witness ==
    /\ cout.fn = "wr64" /\ cout.res.pc = "read"
    /\ Words(cin.old, {}) # Words(cin.v, {})
    /\ Words({}, cin.old) # Words({}, cin.v)
    /\ cout.res.val = cin.v

\* the watts of a request were converted and encoded into the value read
IsApplied == cout.fn \in {"set_limits_encode", "build_units_encode"}

\* 55.0 W and 157.0 W at power_unit = 3
WorkedExample == cin.pu = 3 /\ cin.pl1_w = 5500 /\ cin.pl2_w = 15700

\* C21: with power_unit = 3, 55.0 W and 157.0 W convert to 440 (0x1B8)
\* and 1256 (0x4E8) units, and encoding these into raw = 0 gives
\* 0x00000004E80001B8.
C21_WorkedExample ==
    (IsApplied /\ WorkedExample) =>
        /\ cout.res = [ok |-> TRUE, pl1_units |-> 440, pl2_units |-> 1256]
        /\ cin.raw = {} => cout.enc = U64(0, 1256, 0, 440)

\* the GUI path has produced 0x00000004E80001B8 from raw = 0
C21_Witness ==
    /\ cout.fn = "build_units_encode"
    /\ WorkedExample
    /\ cin.raw = {}
    /\ cout.enc = U64(0, 1256, 0, 440)

\* C22: for every offset x in -500..500 mV, quantize_uv_mv of
\* quantize_uv_mv(x) equals quantize_uv_mv(x), and the step count
\* round(x * 1.024) is the step count of the quantized value.
C22_QuantizeStable ==
    cout.fn = "quantize_uv_mv" =>
        /\ cout.twice = cout.once
        /\ llround_q(cout.once, 125) = llround_q(cin.mv * 128, 125)

\* 50 mV quantized to 51 steps, which is not 50 mV, and quantized again
C22_Witness ==
    /\ cout.fn = "quantize_uv_mv"
    /\ cin.mv = 50
    /\ cout.once = 51 * 125
    /\ cout.once # 50 * 128
    /\ cout.twice = cout.once

\* |quantize(mv) - mv| >= 0.0005 mV, in 1/128 mV
QuantizedDiffers ==
    LET steps == llround_q(cin.mv * 128, 125)
    IN 2000 * fabs(steps * 125 - cin.mv * 128) >= 128

\* the texts apply_core_uv_internal has shown or logged
UvTexts == {cout.res.dialog, cout.res.logged} \ {[t |-> "none"]}

\* C23: what apply_core_uv_internal shows and logs holds the quantized
\* value next to the requested one exactly when they differ by 0.0005 mV
\* or more, and the requested value alone otherwise; for 50 mV the
\* quantized value 51/1.024 (49.805) is reported.
C23_QuantizationReported ==
    cout.fn = "apply_core_uv_internal" =>
        /\ \A x \in UvTexts :
              /\ x.target = cin.mv
              /\ (x.t = "target_applied") <=> QuantizedDiffers
              /\ (x.t = "target") <=> ~QuantizedDiffers
        /\ cin.mv = 50 =>
              \A x \in UvTexts : x.t = "target_applied" /\ x.applied = 49805
        /\ cout.confirm => cout.res.dialog.t # "none"
        /\ cout.res.ret => cout.res.logged.t # "none"

\* 50 mV confirmed and set: 49.805 in the dialog and in the log
C23_Witness ==
    /\ cout.fn = "apply_core_uv_internal"
    /\ cin.mv = 50
    /\ cout.res.ret
    /\ cout.res.dialog = [t |-> "target_applied", target |-> 50, applied |-> 49805]
    /\ cout.res.logged = cout.res.dialog

\* both paths have computed their target from the same value and watts
BothPaths == cout.fn = "paths" /\ cout.fixed.done /\ cout.dyn.done

\* C24: for whole watts in 1..500, mchbar_pl_write --set and the path
\* with the unit read from the machine compute the same target when
\* power_unit = 3; for every other power_unit the dynamic path does not
\* produce the unit fields of the fixed path.
C24_FixedVersusDynamic ==
    BothPaths =>
        /\ cout.fixed.ok
        /\ cin.pu = 3 => (cout.dyn.ok /\ cout.dyn.target = cout.fixed.target)
        /\ (cin.pu # 3 /\ cout.dyn.ok) =>
              /\ print_pl(cout.dyn.target)[1] # print_pl(cout.fixed.target)[1]
              /\ print_pl(cout.dyn.target)[2] # print_pl(cout.fixed.target)[2]

\* at power_unit = 3 both paths changed the fields of the README's value
\* to the same target
C24_Witness ==
    /\ BothPaths
    /\ cin.pu = 3 /\ cin.pl1w = 150 /\ cin.pl2w = 500
    /\ cin.raw = U64(66, 34024, 223, 33208)
    /\ cout.fixed.target # cin.raw
    /\ cout.dyn.target = cout.fixed.target

\* the position of the last read of register r before position i
LastReadPos(i, r) == CHOOSE j \in ReadsBefore(i, r) : \A k \in ReadsBefore(i, r) : k <= j

\* the second writer stored to r between positions j and i of the log
ExternalBetween(j, i, r) ==
    \E k \in (j + 1)..(i - 1) : log[k].ev = "external" /\ log[k].reg = r

\* r was read by the operation in progress and not written since, and no
\* second writer has acted
ReadAndUntouched(r) ==
    /\ op.pc \notin {"idle", "done"}
    /\ \E i \in DOMAIN log : log[i].ev = "read" /\ log[i].reg = r
    /\ \A i \in DOMAIN log : log[i].ev # "external"
    /\ \A i \in DOMAIN log : ~(IsWriteAttempt(log[i]) /\ log[i].reg = r)

\* C25: an apply operation writes the value it derived from its own read
\* of the register, also when a second writer has stored to that register
\* since: the second writer's opaque bits and unit fields are replaced.
\* Without a second writer the register still holds the value read when
\* it is written.
C25_UnprotectedRmw ==
    IsApply =>
        /\ \A i \in RegWriteAttempts :
              /\ ReadsBefore(i, log[i].reg) # {}
              /\ log[i].val = EncodeRef(LastReadBefore(i, log[i].reg),
                                        op.pl1_units, op.pl2_units)
              /\ (log[i].ev = "write"
                  /\ ExternalBetween(LastReadPos(i, log[i].reg), i, log[i].reg)
                  /\ \A k \in (i + 1)..Len(log) : ~(log[k].reg = log[i].reg
                          /\ log[k].ev \in {"write", "external"}))
                 => RegisterValue(log[i].reg) = log[i].val
        /\ \A r \in Registers :
              ReadAndUntouched(r) =>
                  RegisterValue(r) = LastReadBefore(Len(log) + 1, r)

\* a lost update: the second writer stored to the MMIO register between
\* this session's read and write, and the register now holds the opaque
\* bits of the stale read, not the second writer's
C25_Witness ==
    /\ IsApply
    /\ \E i \in RegWriteAttempts :
          /\ log[i].ev = "write" /\ log[i].reg = "mmio"
          /\ \E k \in (LastReadPos(i, "mmio") + 1)..(i - 1) :
                /\ log[k].ev = "external" /\ log[k].reg = "mmio"
                /\ Opaque(log[k].val) # Opaque(log[i].val)
          /\ mmio = log[i].val
          /\ Opaque(mmio) = Opaque(LastReadBefore(i, "mmio"))

\* C26: an operation with one target register (an apply with target MSR
\* or MMIO, a sync with its destination) issues no write to the other
\* register and leaves the other register as it is, at every step.
C26_TargetFrame ==
    [][(op'.fn \in ApplyFns \cup SyncFns /\ op'.target \in Registers) =>
          /\ op'.target = "msr" => mmio' = mmio
          /\ op'.target = "mmio" => msr' = msr
          /\ \A i \in DOMAIN log' :
                (IsWriteAttempt(log'[i]) /\ log'[i].reg \in Registers)
                    => log'[i].reg = op'.target]_vars

\* a GUI apply with target MSR has written the MSR; the MMIO register
\* holds what it held at the start and differs from the MSR
C26_Witness ==
    /\ op.fn = "apply_limits" /\ op.target = "msr"
    /\ op.pc = "done" /\ op.result = "true"
    /\ HasEvent("write", "msr")
    /\ msr = op.next /\ msr # op.st_msr
    /\ mmio = op.st_mmio /\ mmio # msr

\* positions of the declined prompts in the log
Declines == {i \in DOMAIN log : log[i].ev = "declined"}

\* C27: in a GUI apply with confirmation, a declined prompt (MSR, MMIO or
\* powercap) is the last thing that happens: no write follows, the
\* operation returns false, the writes made before it stay in the
\* registers and a register not yet written keeps the value it had.
C27_DeclineAborts ==
    (op.fn = "apply_limits" /\ Declines # {}) =>
        /\ Declines = {Len(log)}
        /\ op.pc = "done" /\ op.result = "false"
        /\ \A r \in Registers :
              LET w == {i \in DOMAIN log : log[i].ev = "write" /\ log[i].reg = r}
              IN /\ \A i \in w : RegisterValue(r) = log[i].val
                 /\ w = {} => RegisterValue(r) = LastReadBefore(Len(log), r)

\* Both mode: the MSR write was confirmed and made, "Write MMIO?" was
\* declined; the MSR holds the new value and the MMIO register the old
C27_Witness ==
    /\ op.fn = "apply_limits" /\ op.target = "both"
    /\ log[Len(log)] = Ev("declined", "mmio", {})
    /\ \E i \in DOMAIN log :
          /\ log[i].ev = "write" /\ log[i].reg = "msr"
          /\ msr = log[i].val /\ msr # op.st_msr
    /\ mmio = op.st_mmio
    /\ op.result = "false"

\* the endpoints before write_powercap_uw
PowercapBefore == [pl1 |-> microwatts(5500), pl2 |-> microwatts(15700)]

\* C28: write_powercap_uw writes constraint_1 only after constraint_0 was
\* written successfully; when the PL1 write fails PL2 is never written,
\* and when the PL2 write fails PL1 keeps its new value and the call
\* returns failure.
C28_PowercapOrder ==
    cout.fn = "write_powercap_uw" =>
        /\ cout.wrote \in {<<>>, <<"pl1">>, <<"pl1", "pl2">>}
        /\ cout.wrote = <<"pl1", "pl2">> => (cin.o1 = "ok" /\ powercap.pl1 = cin.pl1_uw)
        /\ (cout.pc = "ret" /\ cin.o1 # "ok") =>
              (cout.ret = -1 /\ cout.wrote = <<"pl1">> /\ powercap = PowercapBefore)
        /\ (cout.pc = "ret" /\ cin.o1 = "ok" /\ cin.o2 # "ok") =>
              /\ cout.ret = -1
              /\ powercap = [pl1 |-> cin.pl1_uw, pl2 |-> PowercapBefore.pl2]
        /\ (cout.pc = "ret" /\ cin.o1 = "ok" /\ cin.o2 = "ok") =>
              (cout.ret = 0 /\ powercap = [pl1 |-> cin.pl1_uw, pl2 |-> cin.pl2_uw])

\* the PL2 write failed after PL1 was changed: failure with PL1 new, PL2 old
C28_Witness ==
    /\ cout.fn = "write_powercap_uw" /\ cout.pc = "ret"
    /\ cin.o1 = "ok" /\ cin.o2 = "write_fail"
    /\ cout.ret = -1
    /\ powercap.pl1 = cin.pl1_uw /\ powercap.pl1 # PowercapBefore.pl1
    /\ powercap.pl2 = PowercapBefore.pl2 /\ powercap.pl2 # cin.pl2_uw

\* a window that is about to run handle_startup_apply with auto-apply
\* checked and a guard file on disk
StartsGuarded ==
    /\ cin.kind = "startup" /\ cout.pc = "startup"
    /\ cout.startup_enabled /\ cin.guard

\* what holds in the guard branch of handle_startup_apply and after it
GuardBranchHolds ==
    (cout.fn = "main_window" /\ cout.detected) =>
        /\ cout.applied \in {"none", "fallback"}
        /\ cout.pc \in {"fallback", "apply", "applying", "handled"} =>
              (~cout.startup_enabled /\ ~cin.enabled)
        /\ cout.pc = "handled" => (~cin.guard /\ ~cout.startup_guard_set)

\* C29 as stated: whenever the GUI starts with auto-apply enabled and a
\* guard file, handle_startup_apply takes the guard branch: auto-apply is
\* switched off and saved, the primary profile is never applied, and the
\* guard file is gone on every path out of the function.
C29_AnyStart ==
    /\ []GuardBranchHolds
    /\ [][(StartsGuarded /\ cout'.pc # "off") =>
            (cout'.detected /\ ~cout'.startup_enabled /\ ~cin'.enabled)]_vars

\* C29: when the GUI starts with the helper available, auto-apply enabled
\* and a guard file, handle_startup_apply takes the guard branch: auto-apply
\* is switched off and saved, the primary profile is never applied in that
\* run, at most the fallback profile is, and the guard file is gone on every
\* path out of the function.
C29_GuardBlocksPrimary ==
    /\ []GuardBranchHolds
    /\ [][(StartsGuarded /\ cout.backend_ready /\ cout'.pc # "off") =>
            (cout'.detected /\ ~cout'.startup_enabled /\ ~cin'.enabled)]_vars

\* a guarded start that applied the fallback profile and cleared the guard
C29_Witness ==
    /\ cout.fn = "main_window" /\ cout.pc = "handled" /\ cout.detected
    /\ cout.applied = "fallback" /\ cout.apply_result = "ok"
    /\ ~cin.guard /\ ~cin.enabled /\ ~cout.startup_enabled

\* position of the first e in a sequence of events, 0 when there is none
FirstPos(evs, e) ==
    IF \E i \in 1..Len(evs) : evs[i] = e
    THEN CHOOSE i \in 1..Len(evs) : evs[i] = e /\ \A j \in 1..(i - 1) : evs[j] # e
    ELSE 0

\* C30: on a start with auto-apply enabled, no guard and a loadable profile
\* the guard file is written before the first startup register write; it is
\* removed when the startup apply fails and when the application quits
\* normally; a guard file is present between runs only if a process ended
\* without normal quit after the guard was written.
C30_GuardLifecycle ==
    cout.fn = "main_window" =>
        /\ (cout.applied = "primary" /\ FirstPos(cout.events, "write") > 0) =>
              /\ FirstPos(cout.events, "guard_written") > 0
              /\ FirstPos(cout.events, "guard_written") < FirstPos(cout.events, "write")
        /\ (cout.applied = "primary" /\ cout.apply_result = "fail") => ~cin.guard
        /\ (cout.pc = "off" /\ cout.ended = "quit"
              /\ FirstPos(cout.events, "guard_written") > 0) => ~cin.guard
        /\ (cout.pc = "off" /\ cin.guard) => cin.owner = "crashed"

====
